---------------------------- MODULE Spec2Model ----------------------------
(***************************************************************************)
(* A model of the libcubescript core: the identifier table of              *)
(* src/src/cs_state.cc, the refcounted bytecode handles of                 *)
(* src/src/cs_bcode.cc, and the variable / alias-frame machinery of        *)
(* src/cubescript.cc.  Each part has its own variables and its own         *)
(* specification; a specification leaves the other parts' variables        *)
(* unchanged.                                                              *)
(***************************************************************************)
EXTENDS Integers, Sequences, FiniteSets, TLC

VARIABLES
    \* ---- identifier table (src/src/cs_state.cc, internal_state) ----
    idents,           \* the name map: name -> address of the identifier
    identmap,         \* the index vector; the objects are kept in it, and the
                      \* address of an object is its position in it
    cmd_ivar,         \* internal_state::cmd_ivar (address of a command, or NULL)
    cmd_fvar,
    cmd_svar,
    cmd_var_changed,
    top,              \* the last host call on the table and its outcome
    \* ---- bytecode blocks and references (src/src/cs_bcode.cc) ----
    heap,             \* block -> its allocation state and first word
    rawheld,          \* block -> the pointer compile returned is still owned
    refs,             \* the bcode_ref objects: alive or not, and p_code
    fault,            \* "none", "ub" (undefined behaviour went on), "crashed"
    \* ---- an integer variable (src/cubescript.cc, Ident / CsState) ----
    ivar,             \* the Ident: flags, minval, maxval, *storage.ip, overrideval.i
    identflags,       \* CsState::identflags
    nodebug,          \* CsState::nodebug
    vtop,             \* the last call on the variable and what it printed / ran
    hist,             \* history: the value before the first override assignment
    \* ---- alias argument frames (src/cubescript.cc, IdentLink / IdentStack) ----
    argids,           \* the argN aliases: val and stack (pointer to a cell)
    frames,           \* the C++ frames of CALLALIAS and cs_do_args, oldest first
    cstack,           \* CsState::stack: the active IdentLink (0 is &noalias)
    noalias,          \* CsState::noalias.usedargs
    ffault,           \* "none", "crashed" (null dereference), "ub"
    ftop,             \* the last step of the interpreter on the frames
    \* ---- nesting of running code (src/cubescript.cc, rundepth) ----
    rundepth,         \* the thread's rundepth counter
    runs,             \* the runcode / run_ret activations in progress
    rtop,             \* the last entry or exit: what it did and printed
    \* ---- one call of a function of the library ----
    call              \* the inputs of the call, and its outcome once made

tvars == <<idents, identmap, cmd_ivar, cmd_fvar, cmd_svar, cmd_var_changed, top>>
bvars == <<heap, rawheld, refs, fault>>
vvars == <<ivar, identflags, nodebug, vtop, hist>>
fvars == <<argids, frames, cstack, noalias, ffault, ftop>>
dvars == <<rundepth, runs, rtop>>
xvars == <<dvars, call>>
vars == <<tvars, bvars, vvars, fvars, xvars>>

\* nullptr
NULL == 0

(***************************************************************************)
(* Names.  A name is a string; Text gives its characters, which the name   *)
(* rule and new_command inspect one by one.                                *)
(***************************************************************************)
Digits == <<"0", "1", "2", "3", "4", "5", "6", "7", "8", "9">>

isdigit(c) == \E i \in 1..Len(Digits) : Digits[i] = c

RECURSIVE Decimal(_)
\* snprintf("%zu"): the decimal digits of n
Decimal(n) == IF n < 10 THEN <<Digits[n + 1]>>
              ELSE Decimal(n \div 10) \o <<Digits[(n % 10) + 1]>>

MAX_ARGUMENTS == 32

ArgNames == <<"arg1", "arg2", "arg3", "arg4", "arg5", "arg6", "arg7", "arg8",
              "arg9", "arg10", "arg11", "arg12", "arg13", "arg14", "arg15",
              "arg16", "arg17", "arg18", "arg19", "arg20", "arg21", "arg22",
              "arg23", "arg24", "arg25", "arg26", "arg27", "arg28", "arg29",
              "arg30", "arg31", "arg32">>

OtherText ==
    [n \in {"//dummy", "numargs", "dbgalias", "//ivar", "//fvar", "//svar",
            "//var_changed", "//ivar_builtin", "//fvar_builtin",
            "//svar_builtin", "do", "doargs", "if", "result", "!", "&&", "||",
            "local", "break", "continue", "foo", "1up", "arg33"} |->
       CASE n = "//dummy"        -> <<"/", "/", "d", "u", "m", "m", "y">>
         [] n = "numargs"        -> <<"n", "u", "m", "a", "r", "g", "s">>
         [] n = "dbgalias"       -> <<"d", "b", "g", "a", "l", "i", "a", "s">>
         [] n = "//ivar"         -> <<"/", "/", "i", "v", "a", "r">>
         [] n = "//fvar"         -> <<"/", "/", "f", "v", "a", "r">>
         [] n = "//svar"         -> <<"/", "/", "s", "v", "a", "r">>
         [] n = "//var_changed"  -> <<"/", "/", "v", "a", "r", "_", "c", "h",
                                      "a", "n", "g", "e", "d">>
         [] n = "//ivar_builtin" -> <<"/", "/", "i", "v", "a", "r", "_", "b",
                                      "u", "i", "l", "t", "i", "n">>
         [] n = "//fvar_builtin" -> <<"/", "/", "f", "v", "a", "r", "_", "b",
                                      "u", "i", "l", "t", "i", "n">>
         [] n = "//svar_builtin" -> <<"/", "/", "s", "v", "a", "r", "_", "b",
                                      "u", "i", "l", "t", "i", "n">>
         [] n = "do"             -> <<"d", "o">>
         [] n = "doargs"         -> <<"d", "o", "a", "r", "g", "s">>
         [] n = "if"             -> <<"i", "f">>
         [] n = "result"         -> <<"r", "e", "s", "u", "l", "t">>
         [] n = "!"              -> <<"!">>
         [] n = "&&"             -> <<"&", "&">>
         [] n = "||"             -> <<"|", "|">>
         [] n = "local"          -> <<"l", "o", "c", "a", "l">>
         [] n = "break"          -> <<"b", "r", "e", "a", "k">>
         [] n = "continue"       -> <<"c", "o", "n", "t", "i", "n", "u", "e">>
         [] n = "foo"            -> <<"f", "o", "o">>
         [] n = "arg33"          -> <<"a", "r", "g", "3", "3">>
         [] n = "1up"            -> <<"1", "u", "p">>]

\* the characters of a name
Text(n) ==
    IF n \in DOMAIN OtherText THEN OtherText[n]
    ELSE LET i == CHOOSE k \in 1..Len(ArgNames) : ArgNames[k] = n
         IN  <<"a", "r", "g">> \o Decimal(i)

\* snprintf(buf, sizeof(buf), "arg%zu", i + 1)
ArgName(i) ==
    CHOOSE n \in {ArgNames[k] : k \in 1..Len(ArgNames)} :
        Text(n) = <<"a", "r", "g">> \o Decimal(i + 1)

\* the builtin names a host may pass to new_command, in the order of the array
allowed_builtins == <<"//ivar", "//fvar", "//svar", "//var_changed",
                      "//ivar_builtin", "//fvar_builtin", "//svar_builtin">>

\* the number of settable builtin pointers (bptrs: cmd_ivar, cmd_fvar,
\* cmd_svar, cmd_var_changed)
nbptrs == 4

\* A name is rejected when it begins with a digit, or with + - . followed
\* by a digit (the numeric-name rule).
is_valid_name(n) ==
    LET s == Text(n) IN
    ~ \/ (Len(s) >= 1 /\ isdigit(s[1]))
      \/ (Len(s) >= 2 /\ s[1] \in {"+", "-", "."} /\ isdigit(s[2]))


(***************************************************************************)
(* Identifier objects.  Every object carries its name, kind, flags and     *)
(* index; p_index is -1 until add_ident sets it.  An object lives at the   *)
(* position of identmap it was appended at, and pointers to it (in idents, *)
(* cmd_ivar, ...) are that position.                                       *)
(***************************************************************************)
IntV(i) == [t |-> "int", v |-> i]
NullV   == [t |-> "null", v |-> 0]

alias_impl(name, val, flags) ==
    [name |-> name, p_type |-> "ID_ALIAS", p_flags |-> flags, p_index |-> -1,
     val |-> val, args |-> <<>>, numargs |-> 0, func |-> "none"]

var_impl(name, flags) ==
    [name |-> name, p_type |-> "VAR", p_flags |-> flags, p_index |-> -1,
     val |-> NullV, args |-> <<>>, numargs |-> 0, func |-> "none"]

command_impl(name, args, numargs, func) ==
    [name |-> name, p_type |-> "ID_COMMAND", p_flags |-> {}, p_index |-> -1,
     val |-> NullV, args |-> args, numargs |-> numargs, func |-> func]

\* The shared table, as a value the operations below transform.
Table(ids, imap, ci, cf, cs, cvc) ==
    [idents |-> ids, identmap |-> imap, cmd_ivar |-> ci, cmd_fvar |-> cf,
     cmd_svar |-> cs, cmd_var_changed |-> cvc]

EmptyTable == Table(<<>>, <<>>, NULL, NULL, NULL, NULL)

NoErr == [msg |-> "none", name |-> ""]
Err(m, n) == [msg |-> m, name |-> n]

\* the outcome of a call: the table afterwards and the error thrown (if any)
Out(T, e) == [tbl |-> T, err |-> e]

\* internal_state::get_ident: the address of the identifier, or NULL
get_ident(T, name) ==
    IF name \in DOMAIN T.idents THEN T.idents[name] ELSE NULL

\* the address the next created object is kept at
NewAddr(T) == Len(T.identmap) + 1

\* a mutant: the new identifier takes the index of the last one
add_ident_reuse_index(T, id) ==
    LET obj == [id EXCEPT !.p_index =
                    IF Len(T.identmap) = 0 THEN 0 ELSE Len(T.identmap) - 1]
    IN  [T EXCEPT !.idents = (id.name :> NewAddr(T)) @@ T.idents,
                  !.identmap = Append(T.identmap, obj)]

\* internal_state::add_ident
add_ident(T, id) ==
    LET obj == [id EXCEPT !.p_index = Len(T.identmap)]
    IN  [T EXCEPT !.idents = (id.name :> NewAddr(T)) @@ T.idents,
                  !.identmap = Append(T.identmap, obj)]

\* a mutant: the flags given to new_ident are dropped
new_ident_noflags(T, name, flags) ==
    IF get_ident(T, name) = NULL
    THEN IF ~is_valid_name(name)
         THEN Out(T, Err("is not a valid identifier name", name))
         ELSE Out(add_ident(T, alias_impl(name, NullV, {})), NoErr)
    ELSE Out(T, NoErr)

\* internal_state::new_ident
new_ident(T, name, flags) ==
    IF get_ident(T, name) = NULL
    THEN IF ~is_valid_name(name)
         THEN Out(T, Err("is not a valid identifier name", name))
         ELSE Out(add_ident(T, alias_impl(name, NullV, flags)), NoErr)
    ELSE Out(T, NoErr)

\* var_flags
var_flags(read_only, vtp) ==
    (IF read_only THEN {"READONLY"} ELSE {}) \cup
    (CASE vtp = "PERSISTENT"  -> {"PERSIST"}
       [] vtp = "OVERRIDABLE" -> {"OVERRIDE"}
       [] OTHER               -> {})

\* a mutant: the name is checked for validity only
var_name_check_no_redef(id, n) ==
    IF ~is_valid_name(n) THEN Err("is not a valid variable name", n)
    ELSE NoErr

\* var_name_check: the error it throws, or NoErr
var_name_check(id, n) ==
    IF id # NULL THEN Err("redefinition of ident", n)
    ELSE IF ~is_valid_name(n) THEN Err("is not a valid variable name", n)
    ELSE NoErr

\* state::new_var
new_var(T, n, v, read_only, vtp) ==
    LET iv == [var_impl(n, var_flags(read_only, vtp)) EXCEPT !.val = v]
        e  == var_name_check(get_ident(T, n), n)
    IN  IF e # NoErr THEN Out(T, e) ELSE Out(add_ident(T, iv), NoErr)

ArgChars == {"i", "f", "a", "c", "#", "s", "b", "v", "$"}
RepChars == {"1", "2", "3", "4"}
RepCount(c) == CHOOSE k \in 1..4 : Digits[k + 1] = c

RECURSIVE ScanFormat(_, _, _)
\* the format-string loop of state::new_command: the error it throws, or the
\* argument count
ScanFormat(args, pos, nargs) ==
    IF pos > Len(args) THEN [err |-> "none", nargs |-> nargs]
    ELSE LET c == args[pos] IN
      CASE c \in ArgChars -> ScanFormat(args, pos + 1, nargs + 1)
        [] c \in RepChars ->
             LET nrep == RepCount(c) IN
             IF nargs < nrep
             THEN [err |-> "not enough arguments to repeat", nargs |-> nargs]
             ELSE IF (Len(args) + 1 - pos) # 4
             THEN [err |-> "malformed argument list", nargs |-> nargs]
             ELSE IF args[pos + 1] # "."
             THEN [err |-> "repetition without variadic arguments",
                   nargs |-> nargs]
             ELSE ScanFormat(args, pos + 1, nargs - nrep)
        [] c = "." ->
             IF (pos + 3 # Len(args) + 1)
                \/ SubSeq(args, pos, pos + 2) # <<".", ".", ".">>
             THEN [err |-> "unterminated variadic argument list",
                   nargs |-> nargs]
             ELSE ScanFormat(args, pos + 3, nargs)
        [] OTHER -> [err |-> "invalid argument type", nargs |-> nargs]

\* the position of name in allowed_builtins, 0 when it is not one of them
BuiltinPos(name) ==
    IF \E i \in 1..Len(allowed_builtins) : allowed_builtins[i] = name
    THEN CHOOSE i \in 1..Len(allowed_builtins) : allowed_builtins[i] = name
    ELSE 0

\* *bptrs[k] = cmd, k counted from 0
SetBptr(T, k, cmd) ==
    CASE k = 0 -> [T EXCEPT !.cmd_ivar = cmd]
      [] k = 1 -> [T EXCEPT !.cmd_fvar = cmd]
      [] k = 2 -> [T EXCEPT !.cmd_svar = cmd]
      [] OTHER -> [T EXCEPT !.cmd_var_changed = cmd]

\* a mutant: an existing name is not refused
new_command_valid_no_check(T, name, cmd) ==
    Out(add_ident(T, cmd), NoErr)

\* the "valid:" label of state::new_command and what follows it
new_command_valid(T, name, cmd) ==
    IF get_ident(T, name) # NULL
    THEN Out(T, Err("redefinition of ident", name))
    ELSE Out(add_ident(T, cmd), NoErr)

\* a mutant: a settable builtin is set again although it exists already
settable_always(T, name, p) == p - 1 < nbptrs

\* the test that lets new_command set one of the builtin pointers: the name
\* is one of the first nbptrs allowed builtins and does not exist yet
settable(T, name, p) == p - 1 < nbptrs /\ get_ident(T, name) = NULL

\* state::new_command; the created command is destroyed when an error is
\* thrown after its creation
new_command(T, name, args, func) ==
    LET sc  == ScanFormat(args, 1, 0)
        cmd == command_impl(name, args, sc.nargs, func)
        p   == BuiltinPos(name)
        s   == Text(name)
    IN  IF sc.err # "none" THEN Out(T, Err(sc.err, name))
        ELSE IF Len(s) >= 2 /\ s[1] = "/" /\ s[2] = "/"
        THEN IF p = 0
             THEN Out(T, Err("forbidden builtin command", name))
             ELSE IF settable(T, name, p)
                  THEN Out(add_ident(SetBptr(T, p - 1, NewAddr(T)), cmd), NoErr)
                  ELSE new_command_valid(T, name, cmd)
        ELSE new_command_valid(T, name, cmd)

\* static_cast<command_impl *>(p)->p_type = tp, on the command at address a
SetType(T, a, tp) == [T EXCEPT !.identmap[a].p_type = tp]

\* F applied to the value of x (x is evaluated once)
Apply(F(_), x) == CHOOSE r \in {F(v) : v \in {x}} : TRUE

RECURSIVE AddArgs(_, _)
\* the loop of state::state creating arg1 .. argN
AddArgs(T, i) ==
    IF i >= MAX_ARGUMENTS THEN T
    ELSE LET Rest(t) == AddArgs(t, i + 1)
         IN  Apply(Rest, new_ident(T, ArgName(i), {"ARG"}).tbl)

\* p = &new_command(...); p->p_type = tp
Builtin(T, name, args, func, tp) ==
    LET Typed(t) == SetType(t, Len(t.identmap), tp)
    IN  Apply(Typed, new_command(T, name, args, func).tbl)

\* the default variable handlers: statep->cmd_ivar = &new_command(...), ...
DefaultHandlers(T) ==
    LET H1(t) == [t EXCEPT !.cmd_ivar = Len(t.identmap)]
        H2(t) == [t EXCEPT !.cmd_fvar = Len(t.identmap)]
        H3(t) == [t EXCEPT !.cmd_svar = Len(t.identmap),
                           !.cmd_var_changed = NULL]
        C2(t) == Apply(H2, new_command(t, "//fvar_builtin", <<"$", "f", "#">>,
                                       "fvar_builtin").tbl)
        C3(t) == Apply(H3, new_command(t, "//svar_builtin", <<"$", "s", "#">>,
                                       "svar_builtin").tbl)
    IN  Apply(C3, Apply(C2, Apply(H1,
            new_command(T, "//ivar_builtin", <<"$", "i", "#">>,
                        "ivar_builtin").tbl)))

\* the builtin commands state::state registers, in order
BuiltinCommands ==
    << <<"do", <<"b">>, "do", "ID_DO">>,
       <<"doargs", <<"b">>, "doargs", "ID_DOARGS">>,
       <<"if", <<"a", "b", "b">>, "if", "ID_IF">>,
       <<"result", <<"a">>, "result", "ID_RESULT">>,
       <<"!", <<"a">>, "not", "ID_NOT">>,
       <<"&&", <<"c", "1", ".", ".", ".">>, "and", "ID_AND">>,
       <<"||", <<"c", "1", ".", ".", ".">>, "or", "ID_OR">>,
       <<"local", <<>>, "none", "ID_LOCAL">>,
       <<"break", <<>>, "break", "ID_BREAK">>,
       <<"continue", <<>>, "continue", "ID_CONTINUE">> >>

RECURSIVE AddBuiltins(_, _)
AddBuiltins(T, k) ==
    IF k > Len(BuiltinCommands) THEN T
    ELSE LET b == BuiltinCommands[k]
             Rest(t) == AddBuiltins(t, k + 1)
         IN  Apply(Rest, Builtin(T, b[1], b[2], b[3], b[4]))

\* state::state(alloc_func, void *): the table a fresh state holds
ConstructedTable ==
    LET V1(t) == new_var(t, "numargs", IntV(0), TRUE, "DEFAULT").tbl
        V2(t) == new_var(t, "dbgalias", IntV(4), FALSE, "DEFAULT").tbl
        D(t)  == new_ident(t, "//dummy", {"UNKNOWN"}).tbl
        B(t)  == AddBuiltins(t, 1)
    IN  Apply(B, Apply(DefaultHandlers,
            Apply(V2, Apply(V1, Apply(D, AddArgs(EmptyTable, 0))))))

\* state::assign_value.  The value of an existing alias lives in the calling
\* thread's alias stack, and a variable is set by running its handler in the
\* VM: the table object keeps its name, kind and index, and a variable's
\* stored value is either kept (the handler rejected v) or becomes v.
assign_value(T, name, v, keep) ==
    LET a == get_ident(T, name) IN
    IF a # NULL
    THEN CASE T.identmap[a].p_type = "ID_ALIAS" -> Out(T, NoErr)
           [] T.identmap[a].p_type = "VAR" ->
                Out([T EXCEPT !.identmap[a].val = IF keep THEN @ ELSE v], NoErr)
           [] OTHER -> Out(T, Err("cannot redefine builtin with an alias", name))
    ELSE IF ~is_valid_name(name)
    THEN Out(T, Err("cannot alias invalid name", name))
    ELSE Out(add_ident(T, alias_impl(name, v, {})), NoErr)

(***************************************************************************)
(* The host's calls on the table.                                          *)
(***************************************************************************)
\* the names the host passes to new_command: the seven allowed builtins, a
\* forbidden builtin, an existing command, a free name and a numeric name
CommandNames == {"foo", "1up", "do", "//dummy",
                 "//ivar", "//fvar", "//svar", "//var_changed",
                 "//ivar_builtin", "//fvar_builtin", "//svar_builtin"}

\* the names the host passes to new_var
VarNames == {"foo", "1up", "do", "//ivar"}

\* the names the host passes to new_ident and assign_value
AliasNames == {"foo", "1up", "do"}

\* the format strings the host passes: one well formed, one malformed
HostFormats == {<<"i", "1", ".", ".", ".">>, <<"x">>}

\* at most this many identifiers are defined after construction
MaxDefs == 2

NumBuiltinIdents == Len(ConstructedTable.identmap)

CurTable == Table(idents, identmap, cmd_ivar, cmd_fvar, cmd_svar, cmd_var_changed)

\* the variables take the outcome of a call
Becomes(op, n, o) ==
    /\ Len(o.tbl.identmap) <= NumBuiltinIdents + MaxDefs
    /\ idents' = o.tbl.idents
    /\ identmap' = o.tbl.identmap
    /\ cmd_ivar' = o.tbl.cmd_ivar
    /\ cmd_fvar' = o.tbl.cmd_fvar
    /\ cmd_svar' = o.tbl.cmd_svar
    /\ cmd_var_changed' = o.tbl.cmd_var_changed
    /\ top' = [op |-> op, name |-> n, err |-> o.err]
    /\ UNCHANGED <<bvars, vvars, fvars, xvars>>

TableInit ==
    /\ idents = ConstructedTable.idents
    /\ identmap = ConstructedTable.identmap
    /\ cmd_ivar = ConstructedTable.cmd_ivar
    /\ cmd_fvar = ConstructedTable.cmd_fvar
    /\ cmd_svar = ConstructedTable.cmd_svar
    /\ cmd_var_changed = ConstructedTable.cmd_var_changed
    /\ top = [op |-> "state", name |-> "", err |-> NoErr]

NewVar(n) ==
    \E k \in {<<FALSE, "DEFAULT">>, <<TRUE, "PERSISTENT">>} :
        Becomes("new_var", n, new_var(CurTable, n, IntV(1), k[1], k[2]))

NewCommand(n) ==
    \E args \in HostFormats :
        Becomes("new_command", n, new_command(CurTable, n, args, "host"))

NewIdent(n) ==
    Becomes("new_ident", n, new_ident(CurTable, n, {"UNKNOWN"}))

AssignValue(n) ==
    \E keep \in BOOLEAN :
        Becomes("assign_value", n, assign_value(CurTable, n, IntV(2), keep))

TableNext ==
    \/ \E n \in VarNames : NewVar(n)
    \/ \E n \in CommandNames : NewCommand(n)
    \/ \E n \in AliasNames : NewIdent(n)
    \/ \E n \in AliasNames : AssignValue(n)

(***************************************************************************)
(* Properties of the identifier table.                                     *)
(***************************************************************************)
\* the errors the format-string loop of new_command throws
FormatErrors == {"not enough arguments to repeat", "malformed argument list",
                 "repetition without variadic arguments",
                 "unterminated variadic argument list",
                 "invalid argument type"}

\* the table part of the state is left as it was
TableUnchanged ==
    UNCHANGED <<idents, identmap, cmd_ivar, cmd_fvar, cmd_svar, cmd_var_changed>>

\* name lookup and index lookup agree on every identifier of the table
LookupAgrees ==
    \A a \in 1..Len(identmap) :
        LET id == identmap[a]
            f  == get_ident(CurTable, id.name)
        IN  /\ f # NULL
            /\ identmap[f].p_index = id.p_index
            /\ id.p_index + 1 \in 1..Len(identmap)
            /\ identmap[id.p_index + 1] = id
            /\ f = id.p_index + 1

\* a step keeps every identifier at its index, under its name: indices follow
\* the insertion order, and none is changed or given to another identifier
IndicesStable ==
    /\ Len(identmap') >= Len(identmap)
    /\ \A a \in 1..Len(identmap) :
           /\ identmap'[a].name = identmap[a].name
           /\ identmap'[a].p_index = identmap[a].p_index
    /\ \A a \in (Len(identmap) + 1)..Len(identmap') :
           identmap'[a].p_index = a - 1

\* C1: for every identifier of the table, lookup by its name returns the
\* identifier with the same index, identmap[index] is that identifier, and
\* this stays so across later variable, command and alias definitions:
\* indices are given in insertion order and are never changed or reused.
C1_IndexLookup == [](LookupAgrees) /\ [][IndicesStable]_vars

\* C1 witness: a variable and then a command were defined after construction
C1_Witness ==
    /\ Len(identmap) = NumBuiltinIdents + 2
    /\ identmap[NumBuiltinIdents + 1].p_type = "VAR"
    /\ identmap[NumBuiltinIdents + 2].p_type = "ID_COMMAND"
    /\ top.op = "new_command" /\ top.err = NoErr

\* the step is a call of new_var or new_command with the name n (top records
\* the call a step made)
Registers(n) == top'.op \in {"new_var", "new_command"} /\ top'.name = n

\* C7 as stated: registering a variable or a command under a name that is in
\* the table raises a redefinition error and leaves the table unchanged.
C7_Original ==
    [][LET n == top'.name IN
          (Registers(n) /\ get_ident(CurTable, n) # NULL)
              => (top'.err.msg = "redefinition of ident" /\ TableUnchanged)]_vars

\* the errors new_command raises before it looks the name up
RaisedBeforeLookup == FormatErrors \cup {"forbidden builtin command"}

\* C7: registering a variable or a command under a name that is in the table
\* raises an error and leaves the table unchanged (same count; the existing
\* identifier keeps its kind, index and value).  The error is the
\* redefinition error, except for new_command when the format string is
\* malformed (the format error is raised first) or when the name starts with
\* "//" and is not an allowed builtin (forbidden builtin command).
C7_RedefinitionRejected ==
    [][LET n == top'.name IN
          (Registers(n) /\ get_ident(CurTable, n) # NULL)
              => /\ TableUnchanged
                 /\ Len(identmap') = Len(identmap)
                 /\ identmap'[get_ident(CurTable, n)] = identmap[get_ident(CurTable, n)]
                 /\ top'.err # NoErr
                 /\ (top'.op = "new_var") => (top'.err.msg = "redefinition of ident")
                 /\ (top'.err.msg \notin RaisedBeforeLookup)
                        => (top'.err.msg = "redefinition of ident")
                 /\ (top'.err.msg = "forbidden builtin command")
                        => (n = "//dummy" /\ top'.op = "new_command")
                 /\ (top'.err.msg \in FormatErrors) => (top'.op = "new_command")]_vars

\* C7 witness: new_var was refused for the name of an existing command
C7_Witness ==
    /\ top.op = "new_var" /\ top.name = "do"
    /\ top.err.msg = "redefinition of ident"
    /\ Len(identmap) > NumBuiltinIdents

\* the allowed builtins new_command can set a handler pointer from
Settable == {allowed_builtins[i] : i \in 1..nbptrs}

\* all allowed builtins
Reserved == {allowed_builtins[i] : i \in 1..Len(allowed_builtins)}

\* the handler pointer an allowed builtin name stands for
HandlerOf(n) ==
    CASE n \in {"//ivar", "//ivar_builtin"} -> cmd_ivar
      [] n \in {"//fvar", "//fvar_builtin"} -> cmd_fvar
      [] n \in {"//svar", "//svar_builtin"} -> cmd_svar
      [] OTHER -> cmd_var_changed

\* the step is a new_command(n, ...) call with a well formed format string
NewCommandWellFormed(n) ==
    /\ top'.op = "new_command" /\ top'.name = n
    /\ top'.err.msg \notin FormatErrors

\* C8 as stated: for each of the seven reserved names the first new_command
\* after state creation succeeds and installs the host's handler, and a
\* second new_command with that name raises an error.
C8_Original ==
    [][\A n \in Reserved \cap {top'.name} :
          /\ (top.op = "state" /\ NewCommandWellFormed(n))
                => /\ top'.err = NoErr
                   /\ identmap'[get_ident(CurTable, n)'].func = "host"
          /\ (top = [op |-> "new_command", name |-> n, err |-> NoErr]
                /\ top'.op = "new_command") => top'.err # NoErr]_vars

\* C8: //ivar, //fvar, //svar and //var_changed can be set once: a well
\* formed new_command with such a name that is not in the table succeeds and
\* makes the matching handler pointer refer to the host's command; the name
\* then stays in the table and every later new_command with it raises the
\* redefinition error and changes nothing.  //ivar_builtin, //fvar_builtin
\* and //svar_builtin are in the table from state creation on, so every host
\* new_command with one of them raises the redefinition error.
C8_ReservedOnce ==
    /\ [](\A n \in Reserved \ Settable : get_ident(CurTable, n) # NULL)
    /\ [][\A n \in Reserved : get_ident(CurTable, n) # NULL
                                   => get_ident(CurTable, n)' # NULL]_vars
    /\ [][\A n \in Reserved \cap {top'.name} :
          /\ (NewCommandWellFormed(n) /\ n \in Settable
                /\ get_ident(CurTable, n) = NULL)
                => /\ top'.err = NoErr
                   /\ get_ident(CurTable, n)' = Len(identmap')
                   /\ HandlerOf(n)' = get_ident(CurTable, n)'
                   /\ identmap'[HandlerOf(n)'].func = "host"
          /\ (NewCommandWellFormed(n) /\ get_ident(CurTable, n) # NULL)
                => /\ top'.err.msg = "redefinition of ident"
                   /\ TableUnchanged]_vars

\* C8 witness: the host has set //ivar and was refused a second time
C8_Witness ==
    /\ get_ident(CurTable, "//ivar") # NULL
    /\ cmd_ivar = get_ident(CurTable, "//ivar")
    /\ identmap[cmd_ivar].func = "host"
    /\ top = [op |-> "new_command", name |-> "//ivar",
              err |-> Err("redefinition of ident", "//ivar")]

(***************************************************************************)
(* Bytecode blocks.  A block is an array of 32-bit words; its first word   *)
(* is the START instruction with the reference count in the bits above the *)
(* low eight.  A pointer into a block is the block and a word index.       *)
(***************************************************************************)
CODE_START == 0
CODE_OFFSET == 1
CODE_NULL == 2
CODE_EXIT == 9
CODE_BLOCK == 16
CODE_OP_MASK == 63

\* A 32-bit word is kept as its low eight bits (lo, holding the opcode) and
\* the 24 bits above them (hi): the word is hi * 256 + lo.
Word(hi, lo) == [hi |-> hi, lo |-> lo]

\* 2^24: hi is counted modulo this
HiMod == 16777216

\* std::int32_t(w) >> 8, i.e. the signed word divided by 256 rounding down
Int32Hi(w) == IF w.hi >= HiMod \div 2 THEN w.hi - HiMod ELSE w.hi

\* std::int32_t(w) < 0x100
BelowOneRef(w) == Int32Hi(w) < 1

\* w + 0x100 and w - 0x100 in 32 bits
Plus100(w) == [w EXCEPT !.hi = (@ + 1) % HiMod]
Minus100(w) == [w EXCEPT !.hi = (@ + HiMod - 1) % HiMod]

\* w & CODE_OP_MASK
OpOf(w) == w.lo % (CODE_OP_MASK + 1)

\* at most this many blocks are compiled, and this many bcode_ref objects live
MaxBlocks == 2
MaxRefs == 2

Blocks == 1..MaxBlocks
RefSlots == 1..MaxRefs

\* the null code pointer
NullCode == [blk |-> 0, idx |-> 0]

\* The words compile lays out for a script with one nested block: START, the
\* BLOCK instruction with the block's length, the OFFSET instruction recording
\* the distance back to START, the nested code, EXIT.  Indices count from 0.
BlockWords == [i \in 0..5 |->
    CASE i = 0 -> Word(0, CODE_START)
      [] i = 1 -> Word(3, CODE_BLOCK)
      [] i = 2 -> Word(1 + 2, CODE_OFFSET)
      [] i = 3 -> Word(0, CODE_NULL)
      [] OTHER -> Word(0, CODE_EXIT)]

\* the pointers the VM keeps into a block: to START, to the word after START,
\* and to the nested code that follows the OFFSET instruction
CodeIdx == {0, 1, 3}

\* the memory the bytecode operations work on
Mem(h, f) == [heap |-> h, fault |-> f]

\* the word at index i of block b (the first word carries the count)
WordAt(M, b, i) == IF i = 0 THEN M.heap[b].word ELSE BlockWords[i]

\* An access to a block that was freed is undefined behaviour: it either
\* crashes, or goes on with what the memory held (lucky).
Touch(M, b, lucky) ==
    IF M.heap[b].st = "live" \/ M.fault = "crashed" THEN M
    ELSE [M EXCEPT !.fault = IF lucky THEN "ub" ELSE "crashed"]

\* bcode_free; freeing twice is undefined behaviour
bcode_free(M, b, lucky) ==
    IF M.fault = "crashed" THEN M
    ELSE IF M.heap[b].st = "live"
    THEN [M EXCEPT !.heap[b].st = "freed", !.heap[b].frees = 1]
    ELSE [M EXCEPT !.heap[b].frees = 2,
                   !.fault = IF lucky THEN "ub" ELSE "crashed"]

\* bcode_incr on the first word of block b
bcode_incr(M, b, lucky) ==
    LET T == Touch(M, b, lucky) IN
    IF T.fault = "crashed" THEN T
    ELSE [T EXCEPT !.heap[b].word = Plus100(@)]

\* bcode_decr on the first word of block b
bcode_decr(M, b, lucky) ==
    LET T == Touch(M, b, lucky)
        D == [T EXCEPT !.heap[b].word = Minus100(@)]
    IN  IF T.fault = "crashed" THEN T
        ELSE IF BelowOneRef(D.heap[b].word) THEN bcode_free(D, b, lucky)
        ELSE D

\* the index of the first word of the block, found from the code pointer
\* as bcode_addref and bcode_unref find it; -1 when neither case applies
StartOf(M, code) ==
    IF OpOf(WordAt(M, code.blk, code.idx)) = CODE_START
    THEN code.idx
    ELSE LET w == WordAt(M, code.blk, code.idx - 1) IN
         CASE OpOf(w) = CODE_START  -> code.idx - 1
           [] OpOf(w) = CODE_OFFSET -> code.idx - w.hi
           [] OTHER -> -1

\* bcode_addref
bcode_addref(M, code, lucky) ==
    IF code = NullCode \/ M.fault = "crashed" THEN M
    ELSE LET T == Touch(M, code.blk, lucky) IN
         IF T.fault = "crashed" \/ StartOf(T, code) # 0 THEN T
         ELSE bcode_incr(T, code.blk, lucky)

\* bcode_unref
bcode_unref(M, code, lucky) ==
    IF code = NullCode \/ M.fault = "crashed" THEN M
    ELSE LET T == Touch(M, code.blk, lucky) IN
         IF T.fault = "crashed" \/ StartOf(T, code) # 0 THEN T
         ELSE bcode_decr(T, code.blk, lucky)

\* bcode::get_raw: the address of the first word of the bcode object
get_raw(p) == p

CurMem == Mem(heap, fault)

BcodeInit ==
    /\ heap = [b \in Blocks |-> [st |-> "unalloc", word |-> Word(0, 0), frees |-> 0]]
    /\ rawheld = [b \in Blocks |-> FALSE]
    /\ refs = [r \in RefSlots |-> [alive |-> FALSE, p_code |-> NullCode]]
    /\ fault = "none"

\* the memory and the reference objects take the outcome of an operation
BcodeBecomes(M, R) ==
    /\ fault # "crashed"
    /\ heap' = M.heap
    /\ fault' = M.fault
    /\ refs' = R
    /\ UNCHANGED <<tvars, vvars, fvars, xvars>>

\* CsState::compile: a new block whose first word is START; code[0] += 0x100
\* gives the caller the first reference.
Compile(b) ==
    /\ heap[b].st = "unalloc"
    /\ \A c \in Blocks : c < b => heap[c].st # "unalloc"
    /\ rawheld' = [rawheld EXCEPT ![b] = TRUE]
    /\ BcodeBecomes([CurMem EXCEPT !.heap[b] =
            [st |-> "live", word |-> Plus100(BlockWords[0]), frees |-> 0]],
          refs)

\* the owner of the pointer compile returned gives its reference up
RawUnref(b) ==
    /\ rawheld[b]
    /\ rawheld' = [rawheld EXCEPT ![b] = FALSE]
    /\ \E lucky \in BOOLEAN :
          BcodeBecomes(bcode_unref(CurMem, [blk |-> b, idx |-> 0], lucky), refs)

\* bcode_ref::bcode_ref(bcode *v), from a pointer into a block that is
\* referenced
RefFromRaw(r, b, i) ==
    /\ ~refs[r].alive
    /\ rawheld[b] \/ \E q \in RefSlots : refs[q].alive /\ refs[q].p_code.blk = b
    /\ UNCHANGED rawheld
    /\ \E lucky \in BOOLEAN :
          LET code == [blk |-> b, idx |-> i] IN
          BcodeBecomes(bcode_addref(CurMem, get_raw(code), lucky),
                       [refs EXCEPT ![r] = [alive |-> TRUE, p_code |-> code]])

\* bcode_ref::bcode_ref(bcode_ref const &v)
CopyConstruct(r, v) ==
    /\ ~refs[r].alive /\ refs[v].alive
    /\ UNCHANGED rawheld
    /\ \E lucky \in BOOLEAN :
          BcodeBecomes(bcode_addref(CurMem, get_raw(refs[v].p_code), lucky),
                       [refs EXCEPT ![r] = [alive |-> TRUE,
                                            p_code |-> refs[v].p_code]])

\* bcode_ref::operator=(bcode_ref const &v); v may be the object itself
CopyAssign(r, v) ==
    /\ refs[r].alive /\ refs[v].alive
    /\ UNCHANGED rawheld
    /\ \E lucky \in BOOLEAN :
          LET M1 == bcode_unref(CurMem, get_raw(refs[r].p_code), lucky)
              R1 == [refs EXCEPT ![r].p_code = refs[v].p_code]
          IN  BcodeBecomes(bcode_addref(M1, get_raw(R1[r].p_code), lucky), R1)

\* bcode_ref::operator=(bcode_ref &&v); v may be the object itself
MoveAssign(r, v) ==
    /\ refs[r].alive /\ refs[v].alive
    /\ UNCHANGED rawheld
    /\ \E lucky \in BOOLEAN :
          LET M1 == bcode_unref(CurMem, get_raw(refs[r].p_code), lucky)
              R1 == [refs EXCEPT ![r].p_code = refs[v].p_code]
          IN  BcodeBecomes(M1, [R1 EXCEPT ![v].p_code = NullCode])

\* bcode_ref::~bcode_ref
Destroy(r) ==
    /\ refs[r].alive
    /\ UNCHANGED rawheld
    /\ \E lucky \in BOOLEAN :
          BcodeBecomes(bcode_unref(CurMem, get_raw(refs[r].p_code), lucky),
                       [refs EXCEPT ![r] = [alive |-> FALSE, p_code |-> NullCode]])

BcodeNext ==
    \/ \E b \in Blocks : Compile(b)
    \/ \E b \in Blocks : RawUnref(b)
    \/ \E r \in RefSlots, b \in Blocks, i \in CodeIdx : RefFromRaw(r, b, i)
    \/ \E r \in RefSlots, v \in RefSlots : CopyConstruct(r, v)
    \/ \E r \in RefSlots, v \in RefSlots : CopyAssign(r, v)
    \/ \E r \in RefSlots, v \in RefSlots : MoveAssign(r, v)
    \/ \E r \in RefSlots : Destroy(r)

(***************************************************************************)
(* Properties of the bytecode references.                                  *)
(***************************************************************************)
\* the reference count in the first word of block b
RefCount(b) == Int32Hi(heap[b].word)

\* somebody refers to block b: the owner of compile's pointer or a bcode_ref
Referenced(b) ==
    rawheld[b] \/ \E r \in RefSlots : refs[r].alive /\ refs[r].p_code.blk = b

\* C2: for every block obtained from compile and every sequence of bcode_ref
\* copy-construction, copy-assignment, move-assignment and destruction, the
\* count is at least 1 while a reference exists, the block is freed when the
\* last reference is dropped, and it is freed exactly once (never while it is
\* referenced, never twice).
C2_RefcountSafe ==
    \A b \in Blocks :
        /\ Referenced(b) => (heap[b].st = "live" /\ RefCount(b) >= 1)
        /\ (heap[b].st # "unalloc" /\ ~Referenced(b)) => heap[b].st = "freed"
        /\ heap[b].frees <= 1

(***************************************************************************)
(* An integer variable of the interpreter (Ident of type ID_VAR) and the   *)
(* interpreter fields its assignment reads.                                *)
(***************************************************************************)
\* the values scripts and the host assign; the ranges below make -1 and 3 fall
\* outside and 0, 1, 2 inside
Vals == {-1, 0, 1, 3}

\* the (minval, maxval) pairs variables are created with; the last is inverted
Ranges == {<<0, 2>>, <<2, 0>>}

\* the flags the host creates the variable with
HostFlags == {{}, {"PERSIST"}, {"OVERRIDE"}, {"PERSIST", "OVERRIDE"}, {"HEX"}}

\* what overrideval, which the constructor leaves uninitialized, may hold
Garbage == {-1, 1}

\* nodebug blocks nest at most this deep
MaxNoDebug == 1

\* Ident::Ident for ID_VAR; overrideval is not initialized
Ident(m, x, s, flagsv, g) ==
    [flags |-> flagsv \cup (IF m > x THEN {"READONLY"} ELSE {}),
     minval |-> m, maxval |-> x, storage |-> s, overrideval |-> g]

\* the variable and interpreter fields, with what a call printed (out) and
\* whether it ran the change callback (changed)
VarState(id, idf, nd) ==
    [id |-> id, identflags |-> idf, nodebug |-> nd, out |-> "none",
     changed |-> FALSE]

\* cs_debug_code
cs_debug_code(S, fmt) == IF S.nodebug # 0 THEN S ELSE [S EXCEPT !.out = fmt]

\* Ident::changed: runs the variable's change callback
changed(S) == [S EXCEPT !.changed = TRUE]

\* a mutant: the value is saved at every override assignment
cs_override_var_save_always(S) ==
    IF "OVERRIDDEN" \in S.identflags \/ "OVERRIDE" \in S.id.flags
    THEN IF "PERSIST" \in S.id.flags
         THEN [s |-> cs_debug_code(S, "cannot override persistent variable '%s'"),
               success |-> FALSE]
         ELSE [s |-> [S EXCEPT !.id.overrideval = S.id.storage,
                               !.id.flags = @ \cup {"OVERRIDDEN"}],
               success |-> TRUE]
    ELSE [s |-> [S EXCEPT !.id.flags = @ \ {"OVERRIDDEN"}], success |-> TRUE]

\* a mutant: a persistent variable is overridden like any other
cs_override_var_no_persist(S) ==
    IF "OVERRIDDEN" \in S.identflags \/ "OVERRIDE" \in S.id.flags
    THEN IF "OVERRIDDEN" \notin S.id.flags
         THEN [s |-> [S EXCEPT !.id.overrideval = S.id.storage,
                               !.id.flags = @ \cup {"OVERRIDDEN"}],
               success |-> TRUE]
         ELSE [s |-> S, success |-> TRUE]
    ELSE [s |-> [S EXCEPT !.id.flags = @ \ {"OVERRIDDEN"}], success |-> TRUE]

\* a mutant: an assignment outside override mode leaves OVERRIDDEN set
cs_override_var_keep_mark(S) ==
    IF "OVERRIDDEN" \in S.identflags \/ "OVERRIDE" \in S.id.flags
    THEN IF "PERSIST" \in S.id.flags
         THEN [s |-> cs_debug_code(S, "cannot override persistent variable '%s'"),
               success |-> FALSE]
         ELSE IF "OVERRIDDEN" \notin S.id.flags
         THEN [s |-> [S EXCEPT !.id.overrideval = S.id.storage,
                               !.id.flags = @ \cup {"OVERRIDDEN"}],
               success |-> TRUE]
         ELSE [s |-> S, success |-> TRUE]
    ELSE [s |-> S, success |-> TRUE]

\* cs_override_var with the sf, rf and cf the integer setters pass: sf saves
\* the stored value in overrideval, rf and cf do nothing
cs_override_var(S) ==
    IF "OVERRIDDEN" \in S.identflags \/ "OVERRIDE" \in S.id.flags
    THEN IF "PERSIST" \in S.id.flags
         THEN [s |-> cs_debug_code(S, "cannot override persistent variable '%s'"),
               success |-> FALSE]
         ELSE IF "OVERRIDDEN" \notin S.id.flags
         THEN [s |-> [S EXCEPT !.id.overrideval = S.id.storage,
                               !.id.flags = @ \cup {"OVERRIDDEN"}],
               success |-> TRUE]
         ELSE [s |-> S, success |-> TRUE]
    ELSE [s |-> [S EXCEPT !.id.flags = @ \ {"OVERRIDDEN"}], success |-> TRUE]

\* a mutant: the value is not brought into the range
clamp_none(v, lo, hi) == v

\* ostd::clamp
clamp(v, lo, hi) == IF v < lo THEN lo ELSE IF v > hi THEN hi ELSE v

\* CsState::set_var_int on a name that is an ID_VAR
set_var_int(S, v, dofunc, doclamp) ==
    LET o  == cs_override_var(S)
        S1 == [o.s EXCEPT !.id.storage =
                  IF doclamp THEN clamp(v, o.s.id.minval, o.s.id.maxval) ELSE v]
    IN  IF ~o.success THEN o.s
        ELSE IF dofunc THEN changed(S1) ELSE S1

\* the message cs_clamp_var prints
RangeFormat(id) ==
    IF "HEX" \in id.flags
    THEN IF id.minval <= 255 THEN "valid range for '%s' is %d..0x%X"
         ELSE "valid range for '%s' is 0x%X..0x%X"
    ELSE "valid range for '%s' is %d..%d"

\* a mutant: the diagnostic is printed, the value is left as it is
cs_clamp_var_keep(S, v) ==
    IF v < S.id.minval \/ v > S.id.maxval
    THEN [s |-> cs_debug_code(S, RangeFormat(S.id)), v |-> v]
    ELSE [s |-> S, v |-> v]

\* cs_clamp_var
cs_clamp_var(S, v) ==
    IF v < S.id.minval
    THEN [s |-> cs_debug_code(S, RangeFormat(S.id)), v |-> S.id.minval]
    ELSE IF v > S.id.maxval
    THEN [s |-> cs_debug_code(S, RangeFormat(S.id)), v |-> S.id.maxval]
    ELSE [s |-> S, v |-> v]

\* a mutant: a read-only variable is assigned like any other
set_var_int_checked_no_readonly(S, v) ==
    LET o == cs_override_var(S) IN
    IF ~o.success THEN o.s
    ELSE LET c == IF v < o.s.id.minval \/ v > o.s.id.maxval
                  THEN cs_clamp_var(o.s, v)
                  ELSE [s |-> o.s, v |-> v]
         IN  changed([c.s EXCEPT !.id.storage = c.v])

\* CsState::set_var_int_checked(Ident *, int)
set_var_int_checked(S, v) ==
    IF "READONLY" \in S.id.flags
    THEN cs_debug_code(S, "variable '%s' is read only")
    ELSE LET o == cs_override_var(S) IN
         IF ~o.success THEN o.s
         ELSE LET c == IF v < o.s.id.minval \/ v > o.s.id.maxval
                       THEN cs_clamp_var(o.s, v)
                       ELSE [s |-> o.s, v |-> v]
              IN  changed([c.s EXCEPT !.id.storage = c.v])

\* CsState::clear_override on an ID_VAR
clear_override(S) ==
    IF "OVERRIDDEN" \notin S.id.flags THEN S
    ELSE LET S1 == changed([S EXCEPT !.id.storage = S.id.overrideval])
         IN  [S1 EXCEPT !.id.flags = @ \ {"OVERRIDDEN"}]

\* CsState::reset_var on the variable's name
reset_var(S) ==
    IF "READONLY" \in S.id.flags
    THEN cs_debug_code(S, "variable %s is read only")
    ELSE clear_override(S)

CurVar == VarState(ivar, identflags, nodebug)

\* the assignment is one the override rule applies to and does not reject
OverrideAssign(S) ==
    /\ "OVERRIDDEN" \in S.identflags \/ "OVERRIDE" \in S.id.flags
    /\ "PERSIST" \notin S.id.flags

NoHist == [on |-> FALSE, prior |-> 0]

\* The history of override assignments.  first: whether an override
\* assignment was made since the last clear_override (on), and the value the
\* variable had before the first of them (prior).  run: the same, counted
\* anew after an assignment made outside override mode.
HistAfterAssign(S, accepted) ==
    IF ~accepted THEN hist
    ELSE IF OverrideAssign(S)
    THEN [first |-> IF hist.first.on THEN hist.first
                    ELSE [on |-> TRUE, prior |-> S.id.storage],
          run   |-> IF hist.run.on THEN hist.run
                    ELSE [on |-> TRUE, prior |-> S.id.storage]]
    ELSE [hist EXCEPT !.run.on = FALSE]

\* the variables take the outcome of a call
VarBecomes(op, v, S, h) ==
    /\ ivar' = S.id
    /\ identflags' = S.identflags
    /\ nodebug' = S.nodebug
    /\ vtop' = [op |-> op, v |-> v, out |-> S.out, changed |-> S.changed]
    /\ hist' = h
    /\ UNCHANGED <<tvars, bvars, fvars, xvars>>

\* no variable has been created
VarIdle ==
    /\ ivar = Ident(0, 0, 0, {}, 0)
    /\ identflags = {}
    /\ nodebug = 0
    /\ vtop = [op |-> "none", v |-> 0, out |-> "none", changed |-> FALSE]
    /\ hist = [first |-> NoHist, run |-> NoHist]

\* The host has created the variable: a range, the initial value (inside the
\* range when there is one), the flags.
VarInit ==
    /\ \E r \in Ranges, s \in Vals, f \in HostFlags, g \in Garbage :
          /\ (r[1] <= r[2]) => (r[1] <= s /\ s <= r[2])
          /\ ivar = Ident(r[1], r[2], s, f, g)
    /\ identflags = {}
    /\ nodebug = 0
    /\ vtop = [op |-> "new", v |-> 0, out |-> "none", changed |-> FALSE]
    /\ hist = [first |-> NoHist, run |-> NoHist]

\* a script assigns to the variable: CODE_IVAR1, run_ret on an ID_VAR
SetVarIntChecked(v) ==
    LET S == set_var_int_checked(CurVar, v)
        accepted == "READONLY" \notin ivar.flags /\ cs_override_var(CurVar).success
    IN  VarBecomes("set_var_int_checked", v, S, HistAfterAssign(CurVar, accepted))

\* the host calls set_var_int
SetVarInt(v) ==
    \E dofunc \in BOOLEAN, doclamp \in BOOLEAN :
        LET S == set_var_int(CurVar, v, dofunc, doclamp)
        IN  VarBecomes(IF doclamp THEN "set_var_int clamp" ELSE "set_var_int",
                       v, S,
                       HistAfterAssign(CurVar, cs_override_var(CurVar).success))

\* the host calls clear_override on the variable
ClearOverride ==
    VarBecomes("clear_override", 0, clear_override(CurVar),
               [first |-> [hist.first EXCEPT !.on = FALSE],
                run   |-> [hist.run EXCEPT !.on = FALSE]])

\* the host or the resetvar command calls reset_var
ResetVar ==
    VarBecomes("reset_var", 0, reset_var(CurVar),
               IF "READONLY" \in ivar.flags THEN hist
               ELSE [first |-> [hist.first EXCEPT !.on = FALSE],
                     run   |-> [hist.run EXCEPT !.on = FALSE]])

\* CALLALIAS of an overridden alias, or the host: identflags |= IDF_OVERRIDDEN
EnterOverride ==
    /\ "OVERRIDDEN" \notin identflags
    /\ VarBecomes("mode", 0, [CurVar EXCEPT !.identflags = @ \cup {"OVERRIDDEN"}],
                  hist)

\* the return of that call: identflags = oldflags
LeaveOverride ==
    /\ "OVERRIDDEN" \in identflags
    /\ VarBecomes("mode", 0, [CurVar EXCEPT !.identflags = @ \ {"OVERRIDDEN"}],
                  hist)

\* the nodebug command is entered: ++cs.nodebug
NoDebugEnter ==
    /\ nodebug < MaxNoDebug
    /\ VarBecomes("mode", 0, [CurVar EXCEPT !.nodebug = @ + 1], hist)

\* the nodebug command is left: --cs.nodebug
NoDebugLeave ==
    /\ nodebug > 0
    /\ VarBecomes("mode", 0, [CurVar EXCEPT !.nodebug = @ - 1], hist)

VarCheckedNext ==
    \/ \E v \in Vals : SetVarIntChecked(v)
    \/ ClearOverride
    \/ EnterOverride
    \/ LeaveOverride
    \/ NoDebugEnter
    \/ NoDebugLeave

VarNext ==
    \/ VarCheckedNext
    \/ \E v \in Vals : SetVarInt(v)
    \/ ResetVar

(***************************************************************************)
(* Properties of variable assignment.                                      *)
(***************************************************************************)
\* the step is an assignment to the variable, by a script or by the host
AssignStep ==
    vtop'.op \in {"set_var_int_checked", "set_var_int", "set_var_int clamp"}

\* the step is a call of clear_override
ClearStep == vtop'.op = "clear_override"

\* the assignment of the step is made in override mode, or to a variable with
\* the OVERRIDE flag
InOverride == "OVERRIDDEN" \in identflags \/ "OVERRIDE" \in ivar.flags

PersistDiag == "cannot override persistent variable '%s'"

\* C5 as stated: after one or more override assignments the override slot
\* holds the value the variable had before the first of them, and
\* clear_override restores that value, clears OVERRIDDEN and runs the change
\* callback.
C5_Original ==
    /\ [](hist.first.on => ivar.overrideval = hist.first.prior)
    /\ [][(ClearStep /\ hist.first.on)
            => /\ ivar'.storage = hist.first.prior
               /\ "OVERRIDDEN" \notin ivar'.flags
               /\ vtop'.changed]_vars

\* C5: after one or more assignments made in override mode or to a variable
\* with the OVERRIDE flag (not PERSIST), with no assignment outside override
\* mode since the first of them, the variable is OVERRIDDEN and the override
\* slot holds the value it had before the first of them; clear_override then
\* restores exactly that value, clears OVERRIDDEN and runs the change
\* callback.  (An assignment outside override mode clears OVERRIDDEN and ends
\* the run: a later override assignment saves the value anew.)
C5_OverrideRestores ==
    /\ [](hist.run.on => /\ ivar.overrideval = hist.run.prior
                         /\ "OVERRIDDEN" \in ivar.flags)
    /\ [][(ClearStep /\ hist.run.on)
            => /\ ivar'.storage = hist.run.prior
               /\ "OVERRIDDEN" \notin ivar'.flags
               /\ vtop'.changed]_vars

\* C5 witness: clear_override has restored the value 1 the variable had before
\* it was overridden
C5_Witness ==
    /\ vtop.op = "clear_override" /\ vtop.changed
    /\ ~hist.run.on /\ hist.run.prior = 1
    /\ ivar.storage = 1 /\ "OVERRIDDEN" \notin ivar.flags

\* C6 as stated: an assignment to a PERSIST variable in override mode, or to
\* a PERSIST variable with the OVERRIDE flag, is rejected: value, override
\* slot and flags are unchanged, the change callback is not run, and a
\* diagnostic is produced.
C6_Original ==
    [][(AssignStep /\ "PERSIST" \in ivar.flags /\ InOverride)
          => /\ ivar' = ivar
             /\ ~vtop'.changed
             /\ vtop'.out # "none"]_vars

\* C6: an assignment to a PERSIST variable in override mode, or to a PERSIST
\* variable with the OVERRIDE flag, is rejected: value, override slot and
\* flags are unchanged and the change callback is not run; a diagnostic is
\* produced when nodebug is 0, and none inside a nodebug block.
C6_PersistRejected ==
    [][(AssignStep /\ "PERSIST" \in ivar.flags /\ InOverride)
          => /\ ivar' = ivar
             /\ ~vtop'.changed
             /\ (nodebug = 0) => (vtop'.out # "none")
             /\ (nodebug # 0) => (vtop'.out = "none")
             /\ (vtop'.op # "set_var_int_checked" /\ nodebug = 0)
                    => (vtop'.out = PersistDiag)]_vars

\* C6 witness: a script's assignment to a persistent variable was refused in
\* override mode, with the diagnostic
C6_Witness ==
    /\ vtop.op = "set_var_int_checked" /\ vtop.out = PersistDiag
    /\ "OVERRIDDEN" \in identflags /\ "PERSIST" \in ivar.flags
    /\ ~vtop.changed

\* v lies outside the range of the variable
OutOfRange(v) == v < ivar.minval \/ v > ivar.maxval

\* the bound of the range nearest to an out-of-range v
NearestBound(v) == IF v < ivar.minval THEN ivar.minval ELSE ivar.maxval

RangeDiags == {"valid range for '%s' is %d..0x%X",
               "valid range for '%s' is 0x%X..0x%X",
               "valid range for '%s' is %d..%d"}

\* C9 as stated: set_var_int with v outside [min,max] stores the nearest
\* bound when doclamp is true, and stores v and emits a range diagnostic when
\* doclamp is false.
C9_Original ==
    [][/\ (vtop'.op = "set_var_int clamp" /\ OutOfRange(vtop'.v))
            => (ivar'.storage = NearestBound(vtop'.v))
       /\ (vtop'.op = "set_var_int" /\ OutOfRange(vtop'.v))
            => (ivar'.storage = vtop'.v /\ vtop'.out \in RangeDiags)]_vars

\* C9: set_var_int with v outside the range [min,max] (min <= max) of an
\* integer variable, when the assignment is not rejected as an override of a
\* persistent variable: with doclamp true the stored value is the nearest
\* bound (min when v < min, max when v > max), with doclamp false it is v
\* itself; in neither case is a range diagnostic emitted.
C9_ClampOrRaw ==
    [][(/\ vtop'.op \in {"set_var_int", "set_var_int clamp"}
        /\ ivar.minval <= ivar.maxval
        /\ OutOfRange(vtop'.v)
        /\ ~("PERSIST" \in ivar.flags /\ InOverride))
          => /\ (vtop'.op = "set_var_int clamp")
                    => (ivar'.storage = NearestBound(vtop'.v))
             /\ (vtop'.op = "set_var_int") => (ivar'.storage = vtop'.v)
             /\ vtop'.out = "none"]_vars

\* C9 witness: set_var_int with doclamp has stored the upper bound 2 for 3
C9_Witness ==
    /\ vtop.op = "set_var_int clamp" /\ vtop.v = 3
    /\ ivar.maxval = 2 /\ ivar.minval = 0 /\ ivar.storage = 2

\* the value the assignment of the step stores for its argument: the checked
\* assignment and set_var_int with doclamp bring it into the range
StoredValue ==
    IF vtop'.op = "set_var_int" THEN vtop'.v
    ELSE clamp(vtop'.v, ivar.minval, ivar.maxval)

\* the assignment of the step is made outside override mode to a variable
\* without the OVERRIDE flag that is OVERRIDDEN
PlainAssignToOverridden ==
    AssignStep /\ ~InOverride /\ "OVERRIDDEN" \in ivar.flags

\* the script's assignment of the step is refused: the variable is read-only
ReadOnlyRefused ==
    vtop'.op = "set_var_int_checked" /\ "READONLY" \in ivar.flags

\* clear_override on a variable that is not OVERRIDDEN changes nothing
ClearIsNoOp ==
    (ClearStep /\ "OVERRIDDEN" \notin ivar.flags)
        => (ivar' = ivar /\ ~vtop'.changed)

\* C38 as stated: an assignment outside override mode to a variable without
\* the OVERRIDE flag that is OVERRIDDEN stores the new value and clears
\* OVERRIDDEN, so that a later clear_override is a no-op.
C38_Original ==
    [][/\ PlainAssignToOverridden
            => (ivar'.storage = StoredValue /\ "OVERRIDDEN" \notin ivar'.flags)
       /\ ClearIsNoOp]_vars

\* C38: an assignment outside override mode to a variable without the
\* OVERRIDE flag that is OVERRIDDEN, unless it is a script's assignment to a
\* read-only variable, stores the new value and clears OVERRIDDEN and leaves
\* the override slot as it is; a clear_override of a variable that is not
\* OVERRIDDEN is a no-op, so the value saved before the override does not
\* come back.  (A script's assignment to a read-only variable is refused
\* before the override rule is applied: the variable stays OVERRIDDEN.)
C38_PlainAssignClears ==
    [][/\ (PlainAssignToOverridden /\ ~ReadOnlyRefused)
            => /\ ivar'.storage = StoredValue
               /\ "OVERRIDDEN" \notin ivar'.flags
               /\ ivar'.overrideval = ivar.overrideval
       /\ (PlainAssignToOverridden /\ ReadOnlyRefused) => ivar' = ivar
       /\ ClearIsNoOp]_vars

\* C38 witness: the value 0 was saved by an override assignment, an
\* assignment outside override mode then stored 1 and cleared OVERRIDDEN, and
\* clear_override has left the 1 where it is
C38_Witness ==
    /\ vtop.op = "clear_override" /\ ~vtop.changed
    /\ ivar.overrideval = 0 /\ hist.first.prior = 0
    /\ ivar.storage = 1 /\ "OVERRIDDEN" \notin ivar.flags
    /\ "READONLY" \notin ivar.flags

\* a read-only variable that the host has overridden stays OVERRIDDEN after
\* a script's assignment outside override mode
ReadOnlyStaysOverridden ==
    /\ vtop.op = "set_var_int_checked" /\ vtop.out = "variable '%s' is read only"
    /\ identflags = {} /\ "OVERRIDE" \notin ivar.flags
    /\ "READONLY" \in ivar.flags /\ "OVERRIDDEN" \in ivar.flags

\* the value of a variable that is not read-only lies in its range
InRange == ("READONLY" \notin ivar.flags)
              => (ivar.minval <= ivar.storage /\ ivar.storage <= ivar.maxval)

\* C10 as stated: the value of a variable that is not read-only stays in
\* [min,max] under checked assignments and clear_override, and an
\* out-of-range checked assignment stores the nearest bound and emits a range
\* diagnostic.
C10_Original ==
    /\ [](InRange)
    /\ [][(/\ vtop'.op = "set_var_int_checked"
           /\ "READONLY" \notin ivar.flags
           /\ OutOfRange(vtop'.v))
             => /\ ivar'.storage = NearestBound(vtop'.v)
                /\ vtop'.out \in RangeDiags]_vars

\* C10: the value of an integer variable that is not read-only and starts in
\* [min,max] stays in [min,max] under checked assignments and clear_override;
\* an out-of-range checked assignment that is not rejected as an override of
\* a persistent variable stores the nearest bound and runs the change
\* callback, and it emits the range diagnostic when nodebug is 0 (none inside
\* a nodebug block); a rejected one leaves the value as it is.
C10_StaysInRange ==
    /\ [](InRange)
    /\ [][(/\ vtop'.op = "set_var_int_checked"
           /\ "READONLY" \notin ivar.flags
           /\ OutOfRange(vtop'.v))
             => IF "PERSIST" \in ivar.flags /\ InOverride
                THEN ivar'.storage = ivar.storage
                ELSE /\ ivar'.storage = NearestBound(vtop'.v)
                     /\ vtop'.changed
                     /\ (nodebug = 0) => (vtop'.out = RangeFormat(ivar))
                     /\ (nodebug # 0) => (vtop'.out = "none")]_vars

\* C10 witness: with the range 0..2 a script's assignment of 3 has stored 2
\* and printed the range
C10_Witness ==
    /\ vtop.op = "set_var_int_checked" /\ vtop.v = 3
    /\ ivar.minval = 0 /\ ivar.maxval = 2 /\ ivar.storage = 2
    /\ vtop.out = "valid range for '%s' is %d..%d"

\* the variable is read-only before the step
ReadOnly == "READONLY" \in ivar.flags

\* the step leaves the variable as it is and does not run the callback
Rejected == ivar' = ivar /\ ~vtop'.changed

\* C11 as stated: every write to a READONLY variable, through the script
\* assignment, the checked setter, set_var_int and reset, is rejected: value,
\* override slot and flags are unchanged and the change callback is not run.
C11_Original ==
    [][(ReadOnly /\ (AssignStep \/ vtop'.op = "reset_var")) => Rejected]_vars

\* C11: a script assignment (the checked setter) and reset_var reject a write
\* to a READONLY variable, leaving value, override slot and flags unchanged
\* without running the callback, and print "read only" unless diagnostics are
\* off; set_var_int does not look at READONLY and stores the value (clamped
\* when asked to) unless the write is refused as an override of a PERSIST
\* variable.
C11_ReadOnlyRejected ==
    [][ReadOnly =>
        /\ vtop'.op = "set_var_int_checked" =>
              /\ Rejected
              /\ vtop'.out = IF nodebug = 0 THEN "variable '%s' is read only"
                             ELSE "none"
        /\ vtop'.op = "reset_var" =>
              /\ Rejected
              /\ vtop'.out = IF nodebug = 0 THEN "variable %s is read only"
                             ELSE "none"
        /\ (vtop'.op = "set_var_int" /\ ~(InOverride /\ "PERSIST" \in ivar.flags))
              => ivar'.storage = vtop'.v
        /\ (vtop'.op = "set_var_int clamp"
                /\ ~(InOverride /\ "PERSIST" \in ivar.flags))
              => ivar'.storage = clamp(vtop'.v, ivar.minval, ivar.maxval)]_vars

\* a script assignment to a read-only variable was refused with the message
C11_Witness ==
    /\ "READONLY" \in ivar.flags
    /\ vtop.op = "set_var_int_checked"
    /\ vtop.out = "variable '%s' is read only"
    /\ vtop.v # ivar.storage

(***************************************************************************)
(* Alias calls and doargs.  The argN aliases are the identifiers of index  *)
(* 0 .. MaxArguments-1.  A call of an alias (CALLALIAS) and a doargs block *)
(* (cs_do_args) each keep an array of IdentStack cells and an IdentLink in *)
(* their C++ frame; a pointer to a cell is the frame (its depth) and the   *)
(* argument index, a pointer to a link is the frame.  The compiled-code    *)
(* cache of an alias (clean_code) is left out.                             *)
(***************************************************************************)
MaxArguments == 25

\* the argN aliases scripts use here: arg1 .. argNArgs
NArgs == 2

\* calls and doargs blocks nest at most this deep
MaxDepth == 3

ArgIdx == 0..(NArgs - 1)

\* the values scripts assign to argN
SetVals == {5}

\* null cell pointer, and a pointer into a frame that has been left
NullCell == [f |-> 0, i |-> 0]
Dangling == [f |-> -1, i |-> 0]

\* null link pointer (noalias.next)
NullLink == -1

\* the interpreter state the frame operations work on
FrameState(a, fr, cs, na, ft) ==
    [args |-> a, frames |-> fr, cstack |-> cs, noalias |-> na, fault |-> ft]

\* a dereference of p failed: null crashes, a dangling pointer is undefined
Fail(F, p) == [F EXCEPT !.fault = IF p.f = 0 THEN "crashed" ELSE "ub"]

\* l->usedargs, l->argstack, l->next for a link pointer l that is not null
LinkUsed(F, l) == IF l = 0 THEN F.noalias ELSE F.frames[l].link.usedargs
LinkArgstack(F, l) == IF l = 0 THEN 0 ELSE F.frames[l].link.argstack
LinkNext(F, l) == IF l = 0 THEN NullLink ELSE F.frames[l].link.next

\* l->usedargs = U
SetUsed(F, l, U) ==
    IF l = 0 THEN [F EXCEPT !.noalias = U]
    ELSE [F EXCEPT !.frames[l].link.usedargs = U]

\* Ident::push_arg(v, st, um) on argument i, st being the cell at cp
push_arg(F, i, v, cp) ==
    IF F.fault # "none" THEN F
    ELSE IF cp.f <= 0 THEN Fail(F, cp)
    ELSE [F EXCEPT !.frames[cp.f].cells[cp.i] =
                       [val |-> F.args[i].val, next |-> F.args[i].stack],
                   !.args[i] = [val |-> v, stack |-> cp]]

\* Ident::pop_arg on argument i
pop_arg(F, i) ==
    LET st == F.args[i].stack IN
    IF F.fault # "none" \/ st = NullCell THEN F
    ELSE IF st.f < 0 THEN Fail(F, st)
    ELSE [F EXCEPT !.args[i] = [val |-> F.frames[st.f].cells[st.i].val,
                                stack |-> F.frames[st.f].cells[st.i].next]]

\* Ident::undo_arg(st) on argument i, st being the cell at cp
undo_arg(F, i, cp) ==
    LET prev == F.args[i].stack
        F1 == [F EXCEPT !.frames[cp.f].cells[cp.i] =
                            [val |-> F.args[i].val, next |-> prev]]
    IN  IF F.fault # "none" THEN F
        ELSE IF prev.f <= 0 THEN Fail(F1, prev)
        ELSE [F1 EXCEPT !.args[i] =
                  [val |-> F.frames[prev.f].cells[prev.i].val,
                   stack |-> F.frames[prev.f].cells[prev.i].next]]

\* Ident::redo_arg(st) on argument i, st being the cell at cp
redo_arg(F, i, cp) ==
    LET prev == F.frames[cp.f].cells[cp.i].next IN
    IF F.fault # "none" THEN F
    ELSE IF prev.f <= 0 THEN Fail(F, prev)
    ELSE [F EXCEPT !.frames[prev.f].cells[prev.i].val = F.args[i].val,
                   !.args[i] = [val |-> F.frames[cp.f].cells[cp.i].val,
                                stack |-> prev]]

\* Ident::set_arg on argument i
set_arg(F, i, v) ==
    IF F.fault # "none" THEN F
    ELSE IF i \in LinkUsed(F, F.cstack)
    THEN [F EXCEPT !.args[i].val = v]
    ELSE LET F1 == push_arg(F, i, v, [f |-> LinkArgstack(F, F.cstack), i |-> i])
         IN  IF F1.fault # "none" THEN F1
             ELSE SetUsed(F1, F1.cstack, LinkUsed(F1, F1.cstack) \cup {i})

\* one iteration of the loops over the arguments
ArgStep(F, op, i, n) ==
    CASE op = "pop"  -> pop_arg(F, i)
      [] op = "undo" -> undo_arg(F, i, [f |-> n, i |-> i])
      [] OTHER       -> redo_arg(F, i, [f |-> n, i |-> i])

RECURSIVE ForMask(_, _, _, _, _)
\* for (i = ...; ...; ++i) if (mask & (1 << i)) op on argument i
ForMask(F, i, mask, op, n) ==
    IF i >= NArgs THEN F
    ELSE LET Rest(G) == ForMask(G, i + 1, mask, op, n)
         IN  Apply(Rest, IF i \in mask THEN ArgStep(F, op, i, n) ELSE F)

\* the value passed as argument i by the call that makes frame n
Actual(n, i) == 10 * n + i + 1

RECURSIVE PushActuals(_, _, _, _)
\* CALLALIAS: for (i = 0; i < callargs; i++) push_arg(args[offset + i], ...)
PushActuals(F, i, k, n) ==
    IF i >= k THEN F
    ELSE LET Rest(G) == PushActuals(G, i + 1, k, n)
         IN  Apply(Rest, push_arg(F, i, Actual(n, i), [f |-> n, i |-> i]))

RECURSIVE ChainLen(_, _, _)
\* the number of cells on the binding stack that starts at p (at most fuel)
ChainLen(F, p, fuel) ==
    IF p.f <= 0 \/ fuel = 0 THEN 0
    ELSE 1 + ChainLen(F, F.frames[p.f].cells[p.i].next, fuel - 1)

\* the depth of the binding stack of argument i
Depth(F, i) == ChainLen(F, F.args[i].stack, MaxDepth * NArgs + 1)

\* the cells of a frame before anything is stored in them
FreshCells == [i \in ArgIdx |-> [val |-> 0, next |-> NullCell]]

\* what a call or a doargs block found when it was entered
Snapshot(F) ==
    [cstack |-> F.cstack,
     used   |-> LinkUsed(F, F.cstack),
     vals   |-> [i \in ArgIdx |-> F.args[i].val],
     stacks |-> [i \in ArgIdx |-> F.args[i].stack],
     depth  |-> [i \in ArgIdx |-> Depth(F, i)]]

NoSnap ==
    [cstack |-> 0, used |-> {}, vals |-> [i \in ArgIdx |-> 0],
     stacks |-> [i \in ArgIdx |-> NullCell], depth |-> [i \in ArgIdx |-> 0]]

\* the frame is left: pointers that still lead into it dangle
LeaveFrame(F) ==
    LET n == Len(F.frames)
        Fix(p) == IF p.f = n THEN Dangling ELSE p
    IN  [F EXCEPT
           !.frames = [j \in 1..(n - 1) |->
               [F.frames[j] EXCEPT !.cells =
                   [i \in ArgIdx |-> [@[i] EXCEPT !.next = Fix(@)]]]],
           !.args = [i \in ArgIdx |-> [@[i] EXCEPT !.stack = Fix(@)]]]

\* CALLALIAS up to the call of runcode, with k actual arguments
CallEnter(F, k) ==
    LET n  == Len(F.frames) + 1
        fr == [kind |-> "alias", callargs |-> k, cells |-> FreshCells,
               link |-> [next |-> F.cstack, usedargs |-> 0..(k - 1),
                         argstack |-> n],
               prevstack |-> NullLink,
               pre |-> Snapshot(F),
               cval |-> [i \in ArgIdx |-> F.args[i].val]]
        F1 == PushActuals([F EXCEPT !.frames = Append(@, fr)], 0, k, n)
    IN  [F1 EXCEPT !.cstack = n]

\* CALLALIAS after runcode has returned
CallExit(F) ==
    LET n  == Len(F.frames)
        fr == F.frames[n]
        F1 == [F EXCEPT !.cstack = fr.link.next]
        F2 == ForMask(F1, 0, (0..(fr.callargs - 1)) \cup fr.link.usedargs,
                      "pop", n)
    IN  LeaveFrame(F2)

\* cs_do_args up to the call of body
DoArgsBefore(F) ==
    LET n  == Len(F.frames) + 1
        prevstack == LinkNext(F, F.cstack)
        fr == [kind |-> "doargs", callargs |-> 0, cells |-> FreshCells,
               link |-> [next |-> F.cstack, usedargs |-> {}, argstack |-> 0],
               prevstack |-> prevstack,
               pre |-> Snapshot(F),
               cval |-> [i \in ArgIdx |-> 0]]
        F1 == ForMask([F EXCEPT !.frames = Append(@, fr)], 0,
                      LinkUsed(F, F.cstack), "undo", n)
    IN  IF F1.fault # "none" THEN F1
        ELSE IF prevstack = NullLink THEN [F1 EXCEPT !.fault = "crashed"]
        ELSE [F1 EXCEPT !.frames[n].link.usedargs = LinkUsed(F1, prevstack),
                        !.frames[n].link.argstack = LinkArgstack(F1, prevstack),
                        !.cstack = n]

\* cs_do_args after body has returned
DoArgsAfter(F) ==
    LET n  == Len(F.frames)
        fr == F.frames[n]
        F1 == SetUsed(F, fr.prevstack, fr.link.usedargs)
        F2 == [F1 EXCEPT !.cstack = fr.link.next]
        F3 == ForMask(F2, 0, LinkUsed(F2, F2.cstack), "redo", n)
    IN  LeaveFrame(F3)

CurFrames == FrameState(argids, frames, cstack, noalias, ffault)

\* the innermost frame of an alias call, 0 at the top level
CalleeFrame ==
    IF \E j \in 1..Len(frames) : frames[j].kind = "alias"
    THEN CHOOSE j \in 1..Len(frames) :
             /\ frames[j].kind = "alias"
             /\ \A h \in (j + 1)..Len(frames) : frames[h].kind # "alias"
    ELSE 0

\* the variables take the outcome of a step
FrameBecomes(op, F, snap, used) ==
    /\ ffault = "none"
    /\ argids' = F.args
    /\ frames' = F.frames
    /\ cstack' = F.cstack
    /\ noalias' = F.noalias
    /\ ffault' = F.fault
    /\ ftop' = [op |-> op, pre |-> snap, used |-> used]
    /\ UNCHANGED <<tvars, bvars, vvars, xvars>>

\* CsState::CsState: no alias is running
FrameInit ==
    /\ argids = [i \in ArgIdx |-> [val |-> 0, stack |-> NullCell]]
    /\ frames = <<>>
    /\ cstack = 0
    /\ noalias = ArgIdx
    /\ ffault = "none"
    /\ ftop = [op |-> "none", pre |-> NoSnap, used |-> {}]

\* the running code calls an alias with k arguments
Call(k) ==
    /\ Len(frames) < MaxDepth
    /\ FrameBecomes("call", CallEnter(CurFrames, k), NoSnap, {})

\* the body of the called alias is done
Return ==
    /\ Len(frames) > 0 /\ frames[Len(frames)].kind = "alias"
    /\ FrameBecomes("return", CallExit(CurFrames), frames[Len(frames)].pre,
                    (0..(frames[Len(frames)].callargs - 1))
                        \cup frames[Len(frames)].link.usedargs)

\* the running code executes argI = v (CODE_ALIASARG).  In the body of a
\* doargs block directly inside an alias call the assignment is to the
\* caller's binding, which cval of the call follows.
SetArg(i, v) ==
    /\ ffault = "none"
    /\ LET n  == Len(frames)
           F  == set_arg(CurFrames, i, v)
           g  == CalleeFrame
       IN  FrameBecomes("set_arg",
               IF n > 0 /\ frames[n].kind = "doargs" /\ g = n - 1
                  /\ F.fault = "none"
               THEN [F EXCEPT !.frames[g].cval[i] = v] ELSE F,
               NoSnap, {})

\* the running code reaches a doargs block inside an alias (CODE_DOARGS with
\* cs.stack != &cs.noalias)
DoArgsEnter ==
    /\ cstack # 0
    /\ Len(frames) < MaxDepth
    /\ FrameBecomes("doargs_enter", DoArgsBefore(CurFrames), NoSnap, {})

\* the body of the doargs block is done
DoArgsExit ==
    /\ Len(frames) > 0 /\ frames[Len(frames)].kind = "doargs"
    /\ FrameBecomes("doargs_exit", DoArgsAfter(CurFrames),
                    frames[Len(frames)].pre, {})

FrameNext ==
    \/ \E k \in 0..NArgs : Call(k)
    \/ Return
    \/ \E i \in ArgIdx, v \in SetVals : SetArg(i, v)
    \/ DoArgsEnter
    \/ DoArgsExit

\* the state a step leads to
NextFrames == FrameState(argids', frames', cstack', noalias', ffault')

\* the call that returns gives back the frame pointer, the used-args set, and
\* for every argN it bound the value and the binding depth from before the call
CallRestored ==
    /\ ffault' = "none"
    /\ cstack' = ftop'.pre.cstack
    /\ LinkUsed(NextFrames, cstack') = ftop'.pre.used
    /\ \A i \in ftop'.used :
           /\ argids'[i].val = ftop'.pre.vals[i]
           /\ Depth(NextFrames, i) = ftop'.pre.depth[i]

\* C3: calling an alias with k arguments and returning from it leaves the
\* active frame pointer, the used-args set of the caller, and the value and
\* binding-stack depth of every argN alias the call bound (the k actuals and
\* any argN first assigned in the body) as they were before the call.
C3_CallRestores == [][ftop'.op = "return" => CallRestored]_vars

\* on entry to a doargs block the used-args set of the caller is active and
\* every argN used in the callee's frame reads as the caller's binding
DoArgsEntered ==
    LET g == CalleeFrame IN
    /\ ffault' = "none"
    /\ LinkUsed(NextFrames, cstack') = LinkUsed(CurFrames, frames[g].link.next)
    /\ \A i \in frames[g].link.usedargs : argids'[i].val = frames[g].cval[i]

\* on exit from a doargs block the frame pointer from before the block is
\* active and every argN that was used then is bound as it was
DoArgsLeft ==
    /\ ffault' = "none"
    /\ cstack' = ftop'.pre.cstack
    /\ \A i \in ftop'.pre.used :
           /\ argids'[i].val = ftop'.pre.vals[i]
           /\ argids'[i].stack = ftop'.pre.stacks[i]

\* C4: while the body of doargs runs inside an alias, the active used-args
\* set is the caller's and every argN used in the callee's frame reads as
\* the caller's binding; when the body is done the callee's frame pointer is
\* active again and each of those argN holds the callee's binding it had.
C4_DoArgsCallerFrame ==
    [][/\ ftop'.op = "doargs_enter" => DoArgsEntered
       /\ ftop'.op = "doargs_exit" => DoArgsLeft]_vars

(***************************************************************************)
(* The recursion cap.  runcode and run_ret count the activations in        *)
(* progress in rundepth and refuse to go deeper than MaxRunDepth, which is *)
(* 255 in the source and a small number here.                              *)
(***************************************************************************)
MaxRunDepth == 3

\* the results a block that runs to its end may leave
RunResults == {"null", "1"}

\* a mutant: the test of runcode lets one more level in
runcode_entry_late(d) ==
    IF d > MaxRunDepth THEN [depth |-> d, run |-> FALSE]
    ELSE [depth |-> d + 1, run |-> TRUE]

\* runcode up to its dispatch loop: the depth it leaves and whether it runs
runcode_entry(d) ==
    IF d >= MaxRunDepth THEN [depth |-> d, run |-> FALSE]
    ELSE [depth |-> d + 1, run |-> TRUE]

\* run_ret(Ident *, ...) up to the switch on the identifier's type
run_ret_entry(d) == [depth |-> d + 1, run |-> ~(d + 1 > MaxRunDepth)]

\* the variables take the outcome of an entry or exit
RunBecomes(op, d, rs, run, result, out) ==
    /\ rundepth' = d
    /\ runs' = rs
    /\ rtop' = [op |-> op, run |-> run, result |-> result, out |-> out]
    /\ UNCHANGED <<tvars, bvars, fvars, call>>

\* no code is running
RunInit ==
    /\ rundepth = 0
    /\ runs = <<>>
    /\ rtop = [op |-> "none", run |-> FALSE, result |-> "null", out |-> "none"]

\* a block is entered through runcode; when refused, runcode prints, skips
\* the block and returns at once with the null result
RunCode ==
    LET e == runcode_entry(rundepth) IN
    /\ Len(runs) <= MaxRunDepth
    /\ IF e.run
       THEN RunBecomes("runcode", e.depth, Append(runs, "runcode"), TRUE,
                       "null", "none")
       ELSE RunBecomes("runcode", e.depth, runs, FALSE, "null",
                       cs_debug_code(CurVar, "exceeded recursion limit").out)
    /\ UNCHANGED vvars

\* an identifier is run through run_ret; when refused, run_ret prints and
\* returns at once with the null result, taking back its increment
RunRet ==
    LET e == run_ret_entry(rundepth) IN
    /\ Len(runs) <= MaxRunDepth
    /\ IF e.run
       THEN RunBecomes("run_ret", e.depth, Append(runs, "run_ret"), TRUE,
                       "null", "none")
       ELSE RunBecomes("run_ret", e.depth - 1, runs, FALSE, "null",
                       cs_debug_code(CurVar, "exceeded recursion limit").out)
    /\ UNCHANGED vvars

\* the innermost activation ends with result r: --rundepth
RunExit(r) ==
    /\ runs # <<>>
    /\ RunBecomes("exit", rundepth - 1, SubSeq(runs, 1, Len(runs) - 1), FALSE,
                  r, "none")
    /\ UNCHANGED vvars

\* the nodebug command around running code
RunNoDebug == NoDebugEnter \/ NoDebugLeave

RunNext ==
    \/ RunCode
    \/ RunRet
    \/ \E r \in RunResults : RunExit(r)
    \/ RunNoDebug

\* the step enters a block or runs an identifier
EntryStep == rtop'.op \in {"runcode", "run_ret"} /\ nodebug' = nodebug

\* the entry was refused: nothing was run, the result is null and the depth
\* counter and the activations are as before
Refused ==
    /\ ~rtop'.run
    /\ rtop'.result = "null"
    /\ rundepth' = rundepth
    /\ runs' = runs

\* the entry was accepted: the depth counter went up by one
Entered == rtop'.run /\ rundepth' = rundepth + 1 /\ Len(runs') = Len(runs) + 1

\* C12 as stated: an entry that makes the depth exactly the cap runs
\* normally; one that would make it cap+1 is not run, gives null, prints
\* "exceeded recursion limit" and leaves the depth counter as it was.
C12_Original ==
    [][EntryStep =>
        /\ rundepth < MaxRunDepth => Entered
        /\ rundepth = MaxRunDepth =>
              Refused /\ rtop'.out = "exceeded recursion limit"]_vars

\* C12: an entry that makes the depth at most the cap runs normally; one
\* that would make it cap+1 is not run, gives null and leaves the depth
\* counter as it was; it prints "exceeded recursion limit" when diagnostics
\* are on and nothing inside a nodebug block.
C12_DepthCap ==
    [][EntryStep =>
        /\ rundepth < MaxRunDepth => Entered
        /\ rundepth = MaxRunDepth =>
              /\ Refused
              /\ rtop'.out = IF nodebug = 0 THEN "exceeded recursion limit"
                             ELSE "none"]_vars

\* an entry at the cap was refused with the message
C12_Witness ==
    /\ rtop.op = "runcode" /\ ~rtop.run
    /\ rundepth = MaxRunDepth /\ Len(runs) = MaxRunDepth
    /\ rtop.out = "exceeded recursion limit"

(***************************************************************************)
(* Values (TaggedValue) and their conversions.  A string is a sequence of  *)
(* characters.  A float is m * 10^e with m not a multiple of 10 unless it  *)
(* is 0, which is exact for the decimal literals used here; binary         *)
(* rounding and hexadecimal fractions are left out.                        *)
(***************************************************************************)
Tv(t, i, e, s) == [t |-> t, i |-> i, e |-> e, s |-> s]

TvNull == Tv("null", 0, 0, <<>>)
TvInt(n) == Tv("int", n, 0, <<>>)
TvStr(s) == Tv("str", 0, 0, s)
\* a code value: block 0 is the canonical empty block
TvCode(b) == Tv("code", b, 0, <<>>)
\* an identifier value: identifier 0 is the dummy
TvIdent(k) == Tv("ident", k, 0, <<>>)

RECURSIVE Pow10(_)
Pow10(n) == IF n <= 0 THEN 1 ELSE 10 * Pow10(n - 1)

RECURSIVE Normal(_, _)
\* m * 10^e in normal form
Normal(m, e) ==
    IF m = 0 THEN [m |-> 0, e |-> 0]
    ELSE IF m % 10 = 0 THEN Normal(m \div 10, e + 1)
    ELSE [m |-> m, e |-> e]

TvFloat(m, e) ==
    LET Made(n) == Tv("float", n.m, n.e, <<>>) IN Apply(Made, Normal(m, e))

\* integer division that rounds toward zero, as C does
Trunc(a, b) == IF a >= 0 THEN a \div b ELSE -((-a) \div b)

\* int(f) for a float value
FloatToInt(v) == IF v.e >= 0 THEN v.i * Pow10(v.e) ELSE Trunc(v.i, Pow10(-v.e))

INT_MIN == -2147483647 - 1

\* the value of a digit in the base, or -1
DigitVal(c, base) ==
    LET d == IF isdigit(c) THEN (CHOOSE k \in 1..10 : Digits[k] = c) - 1
             ELSE IF c \in {"a", "A"} THEN 10
             ELSE IF c \in {"b", "B"} THEN 11
             ELSE IF c \in {"c", "C"} THEN 12
             ELSE IF c \in {"d", "D"} THEN 13
             ELSE IF c \in {"e", "E"} THEN 14
             ELSE IF c \in {"f", "F"} THEN 15
             ELSE -1
    IN  IF d < base THEN d ELSE -1

\* the character at position k, the terminating NUL past the end
At(s, k) == IF k >= 1 /\ k <= Len(s) THEN s[k] ELSE "NUL"

RECURSIVE SkipSpace(_, _)
SkipSpace(s, k) == IF At(s, k) = " " THEN SkipSpace(s, k + 1) ELSE k

RECURSIVE ScanDigits(_, _, _, _)
\* the digits of the base from position k on: their value and the position
\* after them
ScanDigits(s, k, base, acc) ==
    IF DigitVal(At(s, k), base) < 0 THEN [val |-> acc, end |-> k]
    ELSE ScanDigits(s, k + 1, base, acc * base + DigitVal(At(s, k), base))

INT_MAX == -(INT_MIN + 1)

\* a + b in 32 bits, two's complement
Add32(a, b) ==
    IF a >= 0 /\ b > INT_MAX - a THEN (a - INT_MAX - 1) + (b - INT_MAX - 1)
    ELSE IF a < 0 /\ b < INT_MIN - a THEN (a + INT_MAX + 1) + (b + INT_MAX + 1)
    ELSE a + b

RECURSIVE Mul32(_, _)
\* a * k in 32 bits for a small k >= 0
Mul32(a, k) ==
    IF k = 0 THEN 0
    ELSE LET Plus(m) == Add32(m, a) IN Apply(Plus, Mul32(a, k - 1))

\* -a in 32 bits
Neg32(a) == IF a = INT_MIN THEN INT_MIN ELSE -a

RECURSIVE ScanUnsigned(_, _, _, _)
\* the digits strtoul accumulates from position k on, kept as the int the
\* unsigned long converts to (its low 32 bits), and the position after them
ScanUnsigned(s, k, base, acc) ==
    IF DigitVal(At(s, k), base) < 0 THEN [val |-> acc, end |-> k]
    ELSE LET Digit(m) == Add32(m, DigitVal(At(s, k), base))
             Rest(v)  == ScanUnsigned(s, k + 1, base, v)
         IN  Apply(Rest, Apply(Digit, Mul32(acc, base)))

\* int(strtoul(s, &end, 0)): the value and the position of end
strtoul(s) ==
    LET Scan(h) ==
            LET Fin(d) ==
                    IF d.end = h.start THEN [val |-> 0, end |-> 1]
                    ELSE [val |-> IF h.neg THEN Neg32(d.val) ELSE d.val,
                          end |-> d.end]
            IN  Apply(Fin, ScanUnsigned(s, h.start, h.base, 0))
        Lead(k0) ==
            LET k1  == IF At(s, k0) \in {"+", "-"} THEN k0 + 1 ELSE k0
                hex == /\ At(s, k1) = "0" /\ At(s, k1 + 1) \in {"x", "X"}
                       /\ DigitVal(At(s, k1 + 2), 16) >= 0
            IN  [neg   |-> At(s, k0) = "-",
                 start |-> IF hex THEN k1 + 2 ELSE k1,
                 base  |-> IF hex THEN 16 ELSE IF At(s, k1) = "0" THEN 8 ELSE 10]
        Sign(k0) == Apply(Scan, Lead(k0))
    IN  Apply(Sign, SkipSpace(s, 1))

\* parseint
parseint(s) == strtoul(s).val

\* strtod(s, &end) on decimal input: mantissa, decimal exponent, position of
\* end
strtod(s) ==
    LET Expo(f) ==
            LET ks == IF At(s, f.ke + 1) \in {"+", "-"} THEN f.ke + 2
                      ELSE f.ke + 1
                Fin(ex) ==
                    LET useE == At(s, f.ke) \in {"e", "E"} /\ ex.end > ks IN
                    IF ~f.some THEN [m |-> 0, e |-> 0, end |-> 1]
                    ELSE [m   |-> IF f.neg THEN -f.val ELSE f.val,
                          e   |-> (IF useE
                                   THEN (IF At(s, f.ke + 1) = "-" THEN -ex.val
                                         ELSE ex.val)
                                   ELSE 0) - f.nfrac,
                          end |-> IF useE THEN ex.end ELSE f.ke]
            IN  Apply(Fin, ScanDigits(s, ks, 10, 0))
        Frac(h) ==
            LET dot == At(s, h.ip.end) = "."
                Pack(fp) ==
                    [neg   |-> h.neg,
                     nfrac |-> IF dot THEN fp.end - (h.ip.end + 1) ELSE 0,
                     some  |-> \/ h.ip.end > h.k1
                               \/ dot /\ fp.end > h.ip.end + 1,
                     val   |-> fp.val,
                     ke    |-> fp.end]
                Go(fp) == Apply(Expo, Pack(fp))
            IN  Apply(Go, IF dot THEN ScanDigits(s, h.ip.end + 1, 10, h.ip.val)
                          ELSE h.ip)
        Whole(k0) ==
            LET k1 == IF At(s, k0) \in {"+", "-"} THEN k0 + 1 ELSE k0 IN
            Apply(Frac, [neg |-> At(s, k0) = "-", k1 |-> k1,
                         ip  |-> ScanDigits(s, k1, 10, 0)])
    IN  Apply(Whole, SkipSpace(s, 1))

\* parsefloat
parsefloat(s) ==
    LET Fin(d) ==
            IF d.m # 0 \/ d.end = 1 \/ At(s, d.end) \notin {"x", "X"}
            THEN TvFloat(d.m, d.e)
            ELSE TvFloat(parseint(s), 0)
    IN  Apply(Fin, strtod(s))

\* cs_parse_int, cs_parse_float
cs_parse_int(s) == IF s = <<>> THEN 0 ELSE parseint(s)
cs_parse_float(s) == IF s = <<>> THEN TvFloat(0, 0) ELSE parsefloat(s)

RECURSIVE NegDecimal(_)
\* the decimal digits of the magnitude of n <= 0
NegDecimal(n) ==
    LET d == (10 - (n % 10)) % 10 IN
    IF n > -10 THEN <<Digits[d + 1]>>
    ELSE NegDecimal((n + d) \div 10) \o <<Digits[d + 1]>>

\* a mutant: the sign is not printed
intstr_nosign(n) == IF n < 0 THEN NegDecimal(n) ELSE Decimal(n)

\* intstr: snprintf("%d")
intstr(n) == IF n < 0 THEN <<"-">> \o NegDecimal(n) ELSE Decimal(n)

RECURSIVE FracDigits(_, _)
\* the k decimal digits of m, zero-filled on the left
FracDigits(m, k) ==
    IF k = 0 THEN <<>> ELSE FracDigits(m \div 10, k - 1) \o <<Digits[(m % 10) + 1]>>

\* floatstr: "%.1f" for a whole number, "%.7g" otherwise (short fractions)
floatstr(v) ==
    LET neg == v.i < 0
        a   == IF neg THEN -v.i ELSE v.i
        sgn == IF neg THEN <<"-">> ELSE <<>>
    IN  IF v.e >= 0 THEN sgn \o Decimal(a * Pow10(v.e)) \o <<".", "0">>
        ELSE sgn \o Decimal(a \div Pow10(-v.e)) \o <<".">>
                 \o FracDigits(a % Pow10(-v.e), -v.e)

\* TaggedValue::force_int
force_int(v) ==
    CASE v.t = "int"   -> v
      [] v.t = "float" -> TvInt(FloatToInt(v))
      [] v.t = "str"   -> TvInt(parseint(v.s))
      [] OTHER         -> TvInt(0)

\* TaggedValue::force_float; get_float gives the same value
force_float(v) ==
    CASE v.t = "float" -> v
      [] v.t = "int"   -> TvFloat(v.i, 0)
      [] v.t = "str"   -> parsefloat(v.s)
      [] OTHER         -> TvFloat(0, 0)

\* cs_get_str: the text of a value
get_str(v) ==
    CASE v.t = "str"   -> v.s
      [] v.t = "int"   -> intstr(v.i)
      [] v.t = "float" -> floatstr(v)
      [] OTHER         -> <<>>

\* TaggedValue::force_str
force_str(v) == TvStr(get_str(v))

(***************************************************************************)
(* Calls of commands.  The compiler emits one pushed value per format      *)
(* character and CODE_COM hands the callback the topmost numargs values;   *)
(* a call by name (run_ret) goes through callcommand.                      *)
(***************************************************************************)
\* code compiled from the text s; the command's own identifier
CodeOf(s) == Tv("code", 1, 0, s)
SelfIdent == TvIdent(-1)

\* forcecode
forcecode(v) == IF v.t = "code" THEN v ELSE CodeOf(get_str(v))

\* forcecond
forcecond(v) ==
    IF v.t = "str" THEN (IF v.s # <<>> THEN forcecode(v) ELSE TvInt(0)) ELSE v

\* CsState::force_ident: a string names the identifier, anything else that
\* is not an identifier becomes the dummy
force_ident(v) ==
    CASE v.t = "ident" -> v
      [] v.t = "str"   -> Tv("ident", 1, 0, v.s)
      [] OTHER         -> TvIdent(0)

\* a mutant: a present actual is handed over as it is
Coerce_none(c, v) == v

\* what a present actual becomes under its format character
Coerce(c, v) ==
    CASE c \in {"i", "b"} -> force_int(v)
      [] c \in {"f", "F"} -> force_float(v)
      [] c \in {"s", "S"} -> force_str(v)
      [] c = "E"          -> forcecond(v)
      [] c = "e"          -> forcecode(v)
      [] c = "r"          -> force_ident(v)
      [] OTHER            -> v

\* what a missing actual is replaced by; prev is the value before it, the
\* slot before the array when there is none
Missing(c, prev) ==
    CASE c = "i"          -> TvInt(0)
      [] c = "b"          -> TvInt(INT_MIN)
      [] c = "f"          -> TvFloat(0, 0)
      [] c = "F"          -> force_float(prev)
      [] c \in {"s", "S"} -> TvStr(<<>>)
      [] c = "e"          -> TvCode(0)
      [] c = "r"          -> TvIdent(0)
      [] OTHER            -> TvNull

\* the characters that stand for one parameter taken from the actuals
ParamChars == {"i", "b", "f", "F", "s", "S", "t", "T", "E", "e", "r"}

\* args[k] = v, k counted from 0
SetAt(a, k, v) ==
    IF k < Len(a) THEN [a EXCEPT ![k + 1] = v]
    ELSE a \o [j \in 1..(k - Len(a)) |-> TvNull] \o <<v>>

RECURSIVE Join(_, _)
\* conc: the texts of the values, with single spaces between when asked
Join(vs, space) ==
    IF vs = <<>> THEN <<>>
    ELSE IF Len(vs) = 1 THEN get_str(vs[1])
    ELSE LET Rest(t) == Join(t, space) IN
         get_str(vs[1]) \o (IF space THEN <<" ">> ELSE <<>>)
             \o Apply(Rest, Tail(vs))

\* one turn of the loop over the format in callcommand, at fmt[st.p]: args
\* is the array, i the index of the last value, done is set by C and V,
\* which return at once
CallStep(fmt, numargs, env, st) ==
    LET c    == fmt[st.p]
        i1   == st.i + 1
        prev == IF i1 >= 1 THEN st.args[i1] ELSE env.garbage
        n    == IF i1 > numargs THEN i1 ELSE numargs
        Skip == [st EXCEPT !.p = st.p + 1]
        Put(v, fake) ==
            [st EXCEPT !.p = st.p + 1, !.args = SetAt(st.args, i1, v),
                       !.i = i1, !.fakeargs = st.fakeargs + fake]
    IN
    CASE c \in ParamChars ->
           IF i1 >= numargs
           THEN IF st.rep THEN [Skip EXCEPT !.i = i1]
                ELSE Put(Missing(c, prev), 1)
           ELSE Put(Coerce(c, st.args[i1 + 1]), 0)
      [] c = "$" -> Put(SelfIdent, 0)
      [] c = "N" -> Put(TvInt(IF env.lookup THEN -1 ELSE i1 - st.fakeargs), 0)
      [] c = "C" ->
           [st EXCEPT !.done = TRUE,
                      !.args = <<TvStr(Join(SubSeq(st.args, 1, n), TRUE))>>]
      [] c = "V" ->
           [st EXCEPT !.done = TRUE, !.args = SubSeq(st.args, 1, n)]
      [] c \in RepChars ->
           IF i1 < numargs
           THEN [st EXCEPT !.p = st.p - RepCount(c), !.rep = TRUE]
           ELSE Skip
      [] OTHER -> Skip

RECURSIVE CallLoop(_, _, _, _)
\* the loop over the format in callcommand: the values the callback gets
CallLoop(fmt, numargs, env, st) ==
    IF st.done THEN st.args
    ELSE IF st.p > Len(fmt) THEN SubSeq(st.args, 1, st.i + 1)
    ELSE LET Rest(t) == CallLoop(fmt, numargs, env, t) IN
         Apply(Rest, CallStep(fmt, numargs, env, st))

\* callcommand(cs, id, args, numargs, lookup): the values the callback gets;
\* garbage is what the slot before the array holds
callcommand(fmt, actuals, lookup, garbage) ==
    CallLoop(fmt, Len(actuals), [lookup |-> lookup, garbage |-> garbage],
             [p |-> 1, args |-> actuals, i |-> -1, fakeargs |-> 0,
              rep |-> FALSE, done |-> FALSE])

\* the number of values CODE_COM takes from the stack: id->numargs as
\* add_command counts it for a format without repeat codes
NumFormals(fmt) ==
    Cardinality({k \in 1..Len(fmt) :
                    fmt[k] \in ParamChars \cup {"N", "$", "D"}})

\* one turn of the loop over the format in compilestatements for a command,
\* at fmt[st.p], together with the execution of what it emits: stack is the
\* values pushed, rest the actuals not yet compiled
CompileStep(fmt, garbage, st) ==
    LET c    == fmt[st.p]
        more == st.rest # <<>>
        prev == IF st.stack # <<>> THEN st.stack[Len(st.stack)] ELSE garbage
        room == MaxArguments - Len(st.stack)
        n    == IF Len(st.rest) < room THEN Len(st.rest) ELSE room
        Skip == [st EXCEPT !.p = st.p + 1]
        Fake(v) == [st EXCEPT !.p = st.p + 1, !.stack = Append(st.stack, v),
                              !.fakeargs = st.fakeargs + 1]
        Take(v, k) == [st EXCEPT !.p = st.p + 1, !.stack = Append(st.stack, v),
                                 !.rest = SubSeq(st.rest, k + 1, Len(st.rest))]
    IN
    CASE c \in {"s", "S"} ->
           IF ~more
           THEN IF st.rep THEN Skip ELSE Fake(TvStr(<<>>))
           ELSE IF st.p = Len(fmt)
           THEN Take(IF n > 1 THEN TvStr(Join(SubSeq(st.rest, 1, n), TRUE))
                     ELSE force_str(st.rest[1]), n)
           ELSE Take(force_str(st.rest[1]), 1)
      [] c \in ParamChars \ {"s", "S"} ->
           IF ~more
           THEN IF st.rep THEN Skip ELSE Fake(Missing(c, prev))
           ELSE Take(Coerce(c, st.rest[1]), 1)
      [] c = "$" -> Take(SelfIdent, 0)
      [] c = "N" -> Take(TvInt(Len(st.stack) - st.fakeargs), 0)
      [] c \in {"C", "V"} ->
           [st EXCEPT !.kind = c, !.stack = st.stack \o SubSeq(st.rest, 1, n),
                      !.rest = SubSeq(st.rest, n + 1, Len(st.rest))]
      [] c \in RepChars ->
           IF more /\ Len(st.stack) < MaxArguments
           THEN [st EXCEPT !.p = st.p - RepCount(c), !.rep = TRUE]
           ELSE Skip
      [] OTHER -> Skip

RECURSIVE CompileLoop(_, _, _)
\* the loop over the format in compilestatements: the values pushed, and the
\* actuals left for endstatement to pop
CompileLoop(fmt, garbage, st) ==
    IF st.kind # "run" THEN st
    ELSE IF st.p > Len(fmt) THEN [st EXCEPT !.kind = "com"]
    ELSE LET Rest(t) == CompileLoop(fmt, garbage, t) IN
         Apply(Rest, CompileStep(fmt, garbage, st))

\* the compiled statement, executed up to the call
compiled(fmt, actuals, garbage) ==
    CompileLoop(fmt, garbage,
                [p |-> 1, stack |-> <<>>, rest |-> actuals, fakeargs |-> 0,
                 rep |-> FALSE, kind |-> "run"])

\* a compiled call of the command: the values the callback gets from
\* CODE_COM, CODE_COMV or CODE_COMC
compiledcall(fmt, actuals, garbage) ==
    LET Fin(r) ==
            CASE r.kind = "C" -> <<TvStr(Join(r.stack, TRUE))>>
              [] r.kind = "V" -> r.stack
              [] OTHER -> SubSeq(r.stack, Len(r.stack) - NumFormals(fmt) + 1,
                                 Len(r.stack))
    IN  Apply(Fin, compiled(fmt, actuals, garbage))

\* the values of the call still on the value stack after the statement:
\* free_args of CODE_COM takes the callback's values, endstatement pops
\* every actual the format left
compiledleft(fmt, actuals, garbage) ==
    LET Fin(r) ==
            LET taken  == IF r.kind = "com" THEN NumFormals(fmt)
                          ELSE Len(r.stack)
                popped == Len(r.rest)
            IN  Len(r.stack) + Len(r.rest) - taken - popped
    IN  Apply(Fin, compiled(fmt, actuals, garbage))

\* the values of the call callcommand has not cleaned up when it returns:
\* it cleans args[0..i-1] and then args[i..numargs-1]
calledleft(fmt, actuals, garbage) ==
    LET Fin(i) ==
            LET n == IF i > Len(actuals) THEN i ELSE Len(actuals) IN
            n - (i + (IF Len(actuals) > i THEN Len(actuals) - i ELSE 0))
    IN  Apply(Fin, Len(callcommand(fmt, actuals, FALSE, garbage)))

\* formats have at most this many characters, calls this many actuals
MaxFmt == 2
MaxActuals == 3

CallChars == ParamChars \cup {"N", "$"}
CallFormats == UNION {[1..k -> CallChars] : k \in 0..MaxFmt}
ActualVals == {TvInt(7), TvStr(<<"5">>)}
ActualLists == UNION {[1..k -> ActualVals] : k \in 0..MaxActuals}

\* what the slot before the argument array may hold
GarbageVals == {TvInt(0), TvInt(1)}

\* the outcome of the call is recorded
Called(op, out, left) ==
    /\ call.op = "pending"
    /\ call' = [call EXCEPT !.op = op, !.out = out, !.left = left]
    /\ UNCHANGED <<tvars, bvars, vvars, fvars, dvars>>

\* a command with some format is about to be called with some actuals
CommandInit ==
    \E f \in CallFormats, a \in ActualLists :
        call = [op |-> "pending", fmt |-> f, actuals |-> a, out |-> <<>>,
                left |-> 0]

\* the host runs the command by name: run_ret, callcommand
CallByName ==
    /\ call.op = "pending"
    /\ \E g \in GarbageVals :
           Called("run_ret", callcommand(call.fmt, call.actuals, FALSE, g),
                  calledleft(call.fmt, call.actuals, g))

\* a script calls the command: compilestatements, CODE_COM
CallCompiled ==
    /\ call.op = "pending"
    /\ \E g \in GarbageVals :
           Called("compiled", compiledcall(call.fmt, call.actuals, g),
                  compiledleft(call.fmt, call.actuals, g))

\* a script looks the command up ($name): callcommand without actuals
CallLookup ==
    /\ call.actuals = <<>>
    /\ \E g \in GarbageVals :
           Called("lookup", callcommand(call.fmt, <<>>, TRUE, g),
                  calledleft(call.fmt, <<>>, g))

CommandNext == CallByName \/ CallCompiled \/ CallLookup

\* the command was called, by name or from compiled code
WasCalled == call.op \in {"run_ret", "compiled"}

\* the number of parameter characters among the first p of the format
ParamCount(fmt, p) == Cardinality({k \in 1..p : fmt[k] \in ParamChars})

\* the default the format table gives for a missing argument
TableDefault(c, before) ==
    CASE c = "i"          -> TvInt(0)
      [] c = "b"          -> TvInt(INT_MIN)
      [] c = "f"          -> TvFloat(0, 0)
      [] c = "F"          -> before
      [] c \in {"s", "S"} -> TvStr(<<>>)
      [] c = "e"          -> TvCode(0)
      [] c = "r"          -> TvIdent(0)
      [] OTHER            -> TvNull

\* C13: a call with fewer actuals than formals hands the callback one value
\* per format parameter, each missing position holding its default (F: the
\* value before it) and each N the number of actuals the caller supplied.
C13_MissingArguments ==
    (WasCalled /\ Len(call.actuals) < Len(call.fmt)) =>
        /\ Len(call.out) = Len(call.fmt)
        /\ \A p \in 1..Len(call.fmt) :
              /\ (/\ call.fmt[p] \in ParamChars
                  /\ ParamCount(call.fmt, p) > Len(call.actuals)
                  /\ ~(call.fmt[p] = "F" /\ p = 1))
                    => call.out[p] =
                         TableDefault(call.fmt[p],
                                      IF p > 1 THEN force_float(call.out[p - 1])
                                      ELSE TvNull)
              /\ call.fmt[p] = "N" => call.out[p] = TvInt(Len(call.actuals))

\* the call has more actuals than the format has parameters
Excess == WasCalled /\ Len(call.actuals) > Len(call.fmt)

\* the format character c applied to the actual v, as the format table says
TableCoerce(c, v) ==
    CASE c \in {"i", "b"} -> force_int(v)
      [] c \in {"f", "F"} -> force_float(v)
      [] c \in {"s", "S"} -> force_str(v)
      [] c = "E"          -> forcecond(v)
      [] c = "e"          -> forcecode(v)
      [] c = "r"          -> force_ident(v)
      [] OTHER            -> v

\* C14 as stated: with more actuals than the arity the callback gets only
\* the first arity actuals, each coerced per its own format character; the
\* excess changes no delivered argument and the value stack is balanced.
C14_Original ==
    Excess =>
        /\ Len(call.out) = Len(call.fmt)
        /\ \A p \in 1..Len(call.fmt) :
              call.fmt[p] \in ParamChars
                  => call.out[p] = TableCoerce(call.fmt[p], call.actuals[p])
        /\ call.left = 0

\* the format has parameter characters only
PlainFormat == \A p \in 1..Len(call.fmt) : call.fmt[p] \in ParamChars

\* the call is compiled and the format ends in s or S
ConcLast ==
    /\ call.op = "compiled" /\ call.fmt # <<>>
    /\ call.fmt[Len(call.fmt)] \in {"s", "S"}

\* C14: for a format of parameter characters only, a call with more actuals
\* than the arity hands the callback arity values and leaves the value stack
\* balanced; value p is actual p coerced per its format character, except
\* that a compiled call whose format ends in s or S hands over, as the last
\* value, the texts of the last actual and all the excess ones joined by
\* single spaces.
C14_ExcessArguments ==
    (Excess /\ PlainFormat) =>
        /\ Len(call.out) = Len(call.fmt)
        /\ \A p \in 1..Len(call.fmt) :
              IF ConcLast /\ p = Len(call.fmt)
              THEN call.out[p] =
                     TvStr(Join(SubSeq(call.actuals, p, Len(call.actuals)), TRUE))
              ELSE call.out[p] = TableCoerce(call.fmt[p], call.actuals[p])
        /\ call.left = 0

\* a compiled call with an excess actual whose text differs from its integer
C14_Witness ==
    /\ call.op = "compiled"
    /\ call.fmt = <<"i", "f">>
    /\ call.actuals = <<TvStr(<<"5">>), TvInt(7), TvInt(7)>>
    /\ call.out = <<TvInt(5), TvFloat(7, 0)>>

(***************************************************************************)
(* Registration of a command in the old interface: CsState::add_command.   *)
(* The format is scanned with a range that a repeat digit moves back; the  *)
(* bytes before the start of the format are not the format's own.          *)
(***************************************************************************)
MaxComargs == 12

\* what a byte before the start of the format string may hold
StrayChars == {"i", "s", "NUL"}

\* the formats the host registers
MaxRegFmt == 3
RegChars == {"i", "s", "1", "2", "V"}
RegFormats == UNION {[1..k -> RegChars] : k \in 0..MaxRegFmt}

\* the character under the front of the range
FrontAt(fmt, stray, p) == IF p >= 1 THEN fmt[p] ELSE stray

\* one turn of the loop of add_command, with the pop_front that ends it
add_command_step(fmt, stray, st) ==
    LET c == FrontAt(fmt, stray, st.p)
        Seen == [st EXCEPT !.seen = st.seen \cup
                                      {<<st.p, st.nargs, st.limit>>}]
    IN
    IF <<st.p, st.nargs, st.limit>> \in st.seen
    THEN [st EXCEPT !.ret = "hang"]
    ELSE
    CASE c \in {"i", "b", "f", "F", "t", "T", "E", "N", "D"} ->
           [Seen EXCEPT !.p = st.p + 1,
                        !.nargs = IF st.nargs < MaxArguments THEN st.nargs + 1
                                  ELSE st.nargs]
      [] c \in {"S", "s", "e", "r", "$"} ->
           IF st.nargs < MaxArguments
           THEN [Seen EXCEPT !.p = st.p + 1, !.nargs = st.nargs + 1,
                             !.argmask = st.argmask \cup {st.nargs}]
           ELSE [Seen EXCEPT !.p = st.p + 1]
      [] c \in RepChars ->
           IF st.nargs < MaxArguments
           THEN [Seen EXCEPT !.p = st.p - (RepCount(c) + 1) + 1]
           ELSE [Seen EXCEPT !.p = st.p + 1]
      [] c \in {"C", "V"} -> [Seen EXCEPT !.p = st.p + 1, !.limit = FALSE]
      [] OTHER -> [st EXCEPT !.ret = "false"]

\* a turn of the loop of add_command, or the test that follows the loop
add_command_turn(fmt, stray, st) ==
    IF st.ret # "scan" THEN st
    ELSE IF st.p > Len(fmt)
    THEN [st EXCEPT !.ret = IF st.limit /\ st.nargs > MaxComargs THEN "false"
                            ELSE "true"]
    ELSE add_command_step(fmt, stray, st)

\* the loop runs for at most 2^LoopLog turns
LoopLog == 8

RECURSIVE add_command_loop(_, _, _, _)
\* 2^k turns of the loop of add_command
add_command_loop(fmt, stray, st, k) ==
    IF k = 0 THEN add_command_turn(fmt, stray, st)
    ELSE LET Half(t) == add_command_loop(fmt, stray, t, k - 1) IN
         Apply(Half, Apply(Half, st))

\* add_ident of the old interface: the identifier is in the table afterwards
old_add_ident(names, name) == names \cup {name}

\* CsState::add_command: what it returns ("hang" when it does not return)
\* and the table afterwards
add_command(names, name, fmt, stray) ==
    LET Fin(st) == [ret   |-> st.ret, nargs |-> st.nargs,
                    names |-> IF st.ret = "true" THEN old_add_ident(names, name)
                              ELSE names]
    IN  Apply(Fin, add_command_loop(fmt, stray,
                       [p |-> 1, nargs |-> 0, argmask |-> {}, limit |-> TRUE,
                        seen |-> {}, ret |-> "scan"], LoopLog))

\* the host is about to register a command with some format
RegisterInit ==
    \E f \in RegFormats :
        call = [op |-> "register", fmt |-> f, names |-> {}, ret |-> "none",
                nargs |-> 0]

\* the host calls add_command
AddCommand ==
    /\ call.op = "register"
    /\ \E stray \in StrayChars :
         LET r == add_command(call.names, "cmd", call.fmt, stray) IN
         call' = [call EXCEPT !.op = "add_command", !.names = r.names,
                              !.ret = r.ret, !.nargs = r.nargs]
    /\ UNCHANGED <<tvars, bvars, vvars, fvars, dvars>>

RegisterNext == AddCommand

\* the number of parameter characters before position p
ParamsBefore(fmt, p) ==
    Cardinality({k \in 1..(p - 1) : fmt[k] \notin RepChars \cup {"C", "V"}})

\* some repeat digit n of the format has fewer than n parameter characters
\* before it
BadRepeat(fmt) ==
    \E p \in 1..Len(fmt) :
        fmt[p] \in RepChars /\ ParamsBefore(fmt, p) < RepCount(fmt[p])

\* C15: registering a command whose format has a repeat digit n preceded by
\* fewer than n parameter characters is rejected with an error and adds no
\* identifier to the table.
C15_RepeatRejected ==
    (call.op = "add_command" /\ BadRepeat(call.fmt)) =>
        call.ret = "false" /\ call.names = {}

(***************************************************************************)
(* The integer math commands (CS_CMD_MATH) and their call from compiled    *)
(* code (CODE_COMV) and by name.                                           *)
(***************************************************************************)
\* the format "i1V" that CS_CMD_MATHI registers
MathFormat == <<"i", "1", "V">>

\* the statement has at most this many arguments
MaxMathArgs == 3
MathVals == {TvInt(1), TvInt(2), TvInt(3), TvStr(<<"4">>)}
MathLists == UNION {[1..k -> MathVals] : k \in 0..MaxMathArgs}

\* the return types an instruction carries
RetTypes == {"null", "str", "int", "float"}

RECURSIVE MathFold(_, _, _)
\* val = val + val2 for args[k], args[k + 1], ...
MathFold(args, k, val) ==
    IF k > Len(args) THEN val ELSE MathFold(args, k + 1, val + args[k].i)

\* the callback of the command +: val is the callback's local variable,
\* result is cs.result when it returns
math_add(result, args) ==
    [val    |-> IF Len(args) >= 2 THEN MathFold(args, 2, args[1].i)
                ELSE IF Len(args) > 0 THEN args[1].i ELSE 0,
     result |-> result]

\* TaggedValue::force(type): sel tells whether the switch on the value's own
\* type selects the case of the requested type
force(v, type, sel) ==
    IF ~sel THEN v
    ELSE CASE type = "str"   -> force_str(v)
           [] type = "int"   -> force_int(v)
           [] type = "float" -> force_float(v)
           [] OTHER          -> v

\* CODE_COMV for the command +: the result afterwards
comv_add(actuals, ret, sel, garbage) ==
    force(math_add(TvNull, compiledcall(MathFormat, actuals, garbage)).result,
          ret, sel)

\* run_ret(id, args, ret) for the command +: ret afterwards
run_ret_add(actuals, garbage) ==
    math_add(TvNull, callcommand(MathFormat, actuals, FALSE, garbage)).result

\* a statement "+ a1 ... an" is about to run
MathInit ==
    \E a \in MathLists :
        call = [op |-> "statement", actuals |-> a, ret |-> "null",
                out |-> TvNull]

\* the statement runs as compiled code
AddCompiled ==
    /\ call.op = "statement"
    /\ \E ret \in RetTypes, sel \in BOOLEAN, g \in GarbageVals :
         call' = [call EXCEPT !.op = "comv", !.ret = ret,
                              !.out = comv_add(call.actuals, ret, sel, g)]
    /\ UNCHANGED <<tvars, bvars, vvars, fvars, dvars>>

\* the host runs the command by name
AddByName ==
    /\ call.op = "statement"
    /\ \E g \in GarbageVals :
         call' = [call EXCEPT !.op = "run_ret",
                              !.out = run_ret_add(call.actuals, g)]
    /\ UNCHANGED <<tvars, bvars, vvars, fvars, dvars>>

MathNext == AddCompiled \/ AddByName

RECURSIVE SumOf(_)
\* the sum of the integer values of the arguments
SumOf(vs) == IF vs = <<>> THEN 0 ELSE force_int(vs[1]).i + SumOf(Tail(vs))

\* C16: the command + returns as its result the sum of all its integer
\* arguments: the argument itself when there is one, 0 when there is none.
C16_AddSum ==
    (call.op \in {"comv", "run_ret"} /\ call.ret \in {"null", "int"}) =>
        call.out = TvInt(SumOf(call.actuals))

(***************************************************************************)
(* Truthiness: cs_get_bool.                                                *)
(***************************************************************************)
\* a mutant: a string is false only when it is empty or "0"
cs_get_bool_str_plain(s) == s # <<>> /\ s # <<"0">>

\* cs_get_bool(ConstCharRange): s[k] past the end reads the terminating NUL
cs_get_bool_str(s) ==
    LET Zero(r) ==
            IF r.val # 0 THEN TRUE
            ELSE IF At(s, r.end) \in {"e", "."} THEN cs_parse_float(s).i # 0
            ELSE FALSE
        Dot(k) == ~isdigit(At(s, k)) \/ cs_parse_float(s).i # 0
    IN
    IF s = <<>> THEN FALSE
    ELSE CASE s[1] \in {"+", "-"} ->
                CASE At(s, 2) = "0" -> Apply(Zero, strtoul(s))
                  [] At(s, 2) = "." -> Dot(3)
                  [] OTHER          -> TRUE
           [] s[1] = "0" -> Apply(Zero, strtoul(s))
           [] s[1] = "." -> Dot(2)
           [] OTHER      -> TRUE

\* cs_get_bool(TaggedValue)
cs_get_bool(v) ==
    CASE v.t = "float" -> v.i # 0
      [] v.t = "int"   -> v.i # 0
      [] v.t = "str"   -> cs_get_bool_str(v.s)
      [] OTHER         -> FALSE

\* the strings and numbers whose truth is asked for
MaxBoolLen == 3
BoolChars == {"0", "1", "9", "+", "-", ".", "e", "a", " "}
BoolStrings == UNION {[1..k -> BoolChars] : k \in 0..MaxBoolLen}
BoolNumbers == {TvInt(0), TvInt(1), TvInt(-2), TvFloat(0, 0), TvFloat(5, -1),
                TvFloat(-1, 0)}
BoolValues == {TvStr(s) : s \in BoolStrings} \cup BoolNumbers

\* a value is about to be tested
BoolInit == \E v \in BoolValues : call = [op |-> "value", v |-> v, out |-> FALSE]

\* the value is tested
GetBool ==
    /\ call.op = "value"
    /\ call' = [call EXCEPT !.op = "cs_get_bool", !.out = cs_get_bool(call.v)]
    /\ UNCHANGED <<tvars, bvars, vvars, fvars, dvars>>

BoolNext == GetBool

\* s is a decimal numeric literal: an optional sign, digits with an optional
\* point among them, an optional exponent, and nothing else
IsLiteral(s) ==
    /\ s # <<>> /\ s[1] # " "
    /\ strtod(s).end = Len(s) + 1

\* s is a numeric literal whose value is zero
ZeroLiteral(s) == IsLiteral(s) /\ strtod(s).m = 0

\* C20 as stated: the empty string and the numeric literals that evaluate to
\* zero are false and every other string is true; a number is true exactly
\* when it is not zero.
C20_Original ==
    call.op = "cs_get_bool" =>
        IF call.v.t = "str"
        THEN call.out = ~(call.v.s = <<>> \/ ZeroLiteral(call.v.s))
        ELSE call.out = (call.v.i # 0)

\* the string begins with a zero number: after an optional sign either a 0
\* such that the integer at the start of the string, read as C reads an
\* integer literal, is 0 and, when '.' or 'e' follows that integer, the
\* floating-point number at the start of the string is 0 as well, or a '.'
\* and a digit such that the floating-point number at the start is 0
ZeroStart(s) ==
    LET k == IF At(s, 1) \in {"+", "-"} THEN 2 ELSE 1 IN
    \/ /\ At(s, k) = "0"
       /\ strtoul(s).val = 0
       /\ At(s, strtoul(s).end) \in {"e", "."} => parsefloat(s).i = 0
    \/ /\ At(s, k) = "." /\ isdigit(At(s, k + 1))
       /\ parsefloat(s).i = 0

\* C20: a string is false exactly when it is empty or begins with a zero
\* number, whatever follows the number; a number is true exactly when it is
\* not zero.
C20_Truthiness ==
    call.op = "cs_get_bool" =>
        IF call.v.t = "str"
        THEN call.out = ~(call.v.s = <<>> \/ ZeroStart(call.v.s))
        ELSE call.out = (call.v.i # 0)

\* a string that is no numeric literal and is false all the same
C20_Witness ==
    /\ call.op = "cs_get_bool" /\ call.v = TvStr(<<"0", "a">>)
    /\ ~call.out

\* every zero literal is false
C20_ZeroLiteralsFalse ==
    (call.op = "cs_get_bool" /\ call.v.t = "str" /\ ZeroLiteral(call.v.s))
        => ~call.out

(***************************************************************************)
(* Compiled control statements and their execution by runcode.  An         *)
(* instruction is a record: op is the opcode, n the number in its upper    *)
(* bits, v the literal that follows it, id the command it calls.  A code   *)
(* value holds the position of the first instruction to run, 0 for the     *)
(* static empty block.  The n of a RESULT instruction, which the opcode    *)
(* does not use, numbers the statement it was compiled from, and runcode   *)
(* keeps a trace of these numbers.  Return types are all null.             *)
(***************************************************************************)
Ins(op, n, v) == [op |-> op, n |-> n, v |-> v, id |-> "none"]
Op(op) == Ins(op, 0, TvNull)
Com(op, n, id) == [op |-> op, n |-> n, v |-> TvNull, id |-> id]

\* TaggedValue::get_code: the position, 0 for what is not code
get_code(v) == IF v.t = "code" THEN v.i ELSE 0

\* the last k values off the stack
Drop(a, k) == SubSeq(a, 1, Len(a) - k)
Top(a) == a[Len(a)]

RECURSIVE runcode(_, _, _)

\* the callback of the command if: args are the condition and two blocks
cmd_if(prog, args, trace) ==
    runcode(prog, get_code(IF cs_get_bool(args[1]) THEN args[2] ELSE args[3]),
            trace)

RECURSIVE AndOrLoop(_, _, _, _, _)
\* the loop of the callbacks of && and ||: r is the result and the trace
AndOrLoop(prog, isand, args, i, r) ==
    IF i > Len(args) THEN r
    ELSE LET Decide(t) ==
                 IF cs_get_bool(t.result) = isand
                 THEN AndOrLoop(prog, isand, args, i + 1, t)
                 ELSE t
         IN  Apply(Decide,
                   IF args[i].t = "code"
                   THEN runcode(prog, args[i].i, r.trace)
                   ELSE [r EXCEPT !.result = args[i]])

\* the callbacks of && and ||
cmd_andor(prog, isand, args, trace) ==
    IF args = <<>>
    THEN [pc |-> 0, result |-> TvInt(IF isand THEN 1 ELSE 0), trace |-> trace]
    ELSE AndOrLoop(prog, isand, args, 1,
                   [pc |-> 0, result |-> TvNull, trace |-> trace])

\* the callback of a command
Callback(prog, id, args, trace) ==
    CASE id = "if" -> cmd_if(prog, args, trace)
      [] id = "&&" -> cmd_andor(prog, TRUE, args, trace)
      [] id = "||" -> cmd_andor(prog, FALSE, args, trace)
      \* a command of the host: the call is logged
      [] OTHER -> [pc |-> 0, result |-> TvNull,
                   trace |-> Append(trace, [called |-> id, args |-> args])]

\* a mutant: only a leading digit makes a name a number
cs_check_num_digit(s) == isdigit(At(s, 1))

\* cs_check_num: s[k] past the end reads the terminating NUL
cs_check_num(s) ==
    \/ isdigit(At(s, 1))
    \/ /\ At(s, 1) \in {"+", "-"}
       /\ (isdigit(At(s, 2)) \/ (At(s, 2) = "." /\ isdigit(At(s, 3))))
    \/ (At(s, 1) = "." /\ isdigit(At(s, 2)))

\* a mutant: the lookup of an alias yields its value as it is held
lookup_val(id) == id.val

\* CODE_LOOKUP|RET_STR: the value of the alias as a string
lookup_str(id) == TvStr(get_str(id.val))

\* a mutant: the name under the arguments stays on the stack
SKIPARGS_keep(offset) == offset

\* SKIPARGS of CODE_CALLU: the stack depth the call leaves, which drops the
\* name under the arguments too; offset counts the values under the arguments
SKIPARGS(offset) == offset - 1

\* idents.at(name) in the table of the running state: the identifier, or
\* an identifier of type "none"
IdentAt(table, name) ==
    IF \E e \in table : e.name = name
    THEN CHOOSE e \in table : e.name = name
    ELSE [name |-> name, type |-> "none"]

\* runcode CODE_CALLU with n arguments: the value under them names what is
\* called.  st.env holds the identifier table and nodebug; a call is logged
\* in the trace with the values handed over, a diagnostic in st.said.
callu(prog, st, n) ==
    LET offset == Len(st.args) - n
        idarg  == st.args[offset]
        actual == SubSeq(st.args, offset + 1, Len(st.args))
        id     == IdentAt(st.env.idents, idarg.s)
        next   == [st EXCEPT !.pc = st.pc + 1,
                             !.args = SubSeq(st.args, 1, SKIPARGS(offset)),
                             !.result = TvNull]
        litval == [next EXCEPT !.result = idarg]
        noid   == IF cs_check_num(idarg.s) THEN litval
                  ELSE [next EXCEPT !.said =
                          st.said \o (IF st.env.nodebug # 0 THEN <<>>
                                      ELSE <<"unknown command">>)]
        AfterAlias(r) == [next EXCEPT !.result = r.result, !.trace = r.trace]
    IN
    IF idarg.t # "str" THEN litval
    ELSE CASE id.type = "none" -> noid
           [] id.type = "ID_COMMAND" ->
                [next EXCEPT !.trace =
                   Append(st.trace,
                          [called |-> id.name,
                           args |-> callcommand(id.fmt, actual, FALSE, idarg)])]
           [] id.type = "ID_VAR" ->
                [next EXCEPT !.trace =
                   Append(st.trace,
                          IF n <= 0 THEN [called |-> id.name, args |-> <<>>]
                          ELSE [called |-> id.name,
                                args |-> <<force_int(actual[1])>>])]
           [] id.type = "ID_ALIAS" ->
                IF id.val.t = "null" THEN noid
                ELSE Apply(AfterAlias,
                           runcode(prog, id.code,
                                   Append(st.trace, [called |-> id.name,
                                                     args |-> actual])))

\* one instruction of runcode; the code pointer is past it when it executes
VmStep(prog, st) ==
    LET ins  == prog[st.pc]
        next == [st EXCEPT !.pc = st.pc + 1]
        Jump(taken) == IF taken THEN [st EXCEPT !.pc = st.pc + 1 + ins.n]
                       ELSE next
        AfterEnter(r) ==
            IF ins.op = "ENTER"
            THEN [st EXCEPT !.pc = r.pc, !.args = Append(st.args, r.result),
                            !.trace = r.trace]
            ELSE [st EXCEPT !.pc = r.pc, !.result = r.result,
                            !.trace = r.trace]
        JumpResult(r) ==
            [st EXCEPT !.pc = IF cs_get_bool(r.result)
                                   = (ins.op = "JUMP_RESULT_TRUE")
                              THEN st.pc + 1 + ins.n ELSE st.pc + 1,
                       !.args = Drop(st.args, 1), !.result = r.result,
                       !.trace = r.trace]
        AfterCall(r) ==
            [next EXCEPT !.args = Drop(st.args, ins.n), !.result = r.result,
                         !.trace = r.trace]
    IN
    CASE ins.op \in {"START", "OFFSET"} -> next
      [] ins.op = "NULL"  -> [next EXCEPT !.result = TvNull]
      [] ins.op = "TRUE"  -> [next EXCEPT !.result = TvInt(1)]
      [] ins.op = "FALSE" -> [next EXCEPT !.result = TvInt(0)]
      [] ins.op = "POP"   -> [next EXCEPT !.args = Drop(st.args, 1)]
      [] ins.op \in {"ENTER", "ENTER_RESULT"} ->
           Apply(AfterEnter, runcode(prog, st.pc + 1, st.trace))
      [] ins.op = "EXIT"  -> [next EXCEPT !.done = TRUE]
      [] ins.op = "RESULT_ARG" ->
           [next EXCEPT !.args = Append(st.args, st.result),
                        !.result = TvNull]
      [] ins.op = "VAL"   -> [next EXCEPT !.args = Append(st.args, ins.v)]
      [] ins.op = "RESULT" ->
           [next EXCEPT !.args = Drop(st.args, 1), !.result = Top(st.args),
                        !.trace = IF ins.n = 0 THEN st.trace
                                  ELSE Append(st.trace, ins.n)]
      [] ins.op = "EMPTY" -> [next EXCEPT !.args = Append(st.args, TvCode(0))]
      [] ins.op = "BLOCK" ->
           [st EXCEPT !.pc = st.pc + 1 + ins.n,
                      !.args = Append(st.args, TvCode(st.pc + 2))]
      [] ins.op = "COND" ->
           \* a non-empty string would be compiled here; no operand is one
           IF Top(st.args) = TvStr(<<>>)
           THEN [next EXCEPT !.args = Append(Drop(st.args, 1), TvNull)]
           ELSE next
      [] ins.op = "JUMP" -> Jump(TRUE)
      [] ins.op = "JUMP_TRUE" ->
           [Jump(cs_get_bool(Top(st.args))) EXCEPT !.args = Drop(st.args, 1)]
      [] ins.op = "JUMP_FALSE" ->
           [Jump(~cs_get_bool(Top(st.args))) EXCEPT !.args = Drop(st.args, 1)]
      [] ins.op \in {"JUMP_RESULT_TRUE", "JUMP_RESULT_FALSE"} ->
           Apply(JumpResult,
                 IF Top(st.args).t = "code"
                 THEN runcode(prog, Top(st.args).i, st.trace)
                 ELSE [pc |-> 0, result |-> Top(st.args), trace |-> st.trace])
      [] ins.op = "CALLU" -> callu(prog, st, ins.n)
      [] ins.op = "IVAR" ->
           [next EXCEPT !.args =
              Append(st.args, TvInt(IdentAt(st.env.idents, ins.id).val.i))]
      [] ins.op = "LOOKUP" ->
           [next EXCEPT
              !.args = Append(st.args,
                              lookup_str(IdentAt(st.env.idents, ins.id))),
              !.said = st.said \o
                 (IF "UNKNOWN" \in IdentAt(st.env.idents, ins.id).flags
                     /\ st.env.nodebug = 0
                  THEN <<"unknown alias lookup">> ELSE <<>>)]
      [] ins.op \in {"COM", "COMV"} ->
           Apply(AfterCall,
                 Callback(prog, ins.id,
                          SubSeq(st.args, Len(st.args) - ins.n + 1,
                                 Len(st.args)),
                          st.trace))

\* runcode runs at most 2^VmLog instructions of one block
VmLog == 5

RECURSIVE RunLoop(_, _, _)
\* 2^k turns of the loop of runcode, which ends at the EXIT
RunLoop(prog, st, k) ==
    IF k = 0 THEN (IF st.done THEN st ELSE VmStep(prog, st))
    ELSE LET Half(t) == RunLoop(prog, t, k - 1) IN
         Apply(Half, Apply(Half, st))

\* runcode(cs, code, result): where the code pointer ends up, the result, the
\* trace, and the number of values left on its stack
runcode(prog, pc, trace) ==
    IF pc = 0 THEN [pc |-> 0, result |-> TvNull, trace |-> trace, left |-> 0]
    ELSE LET Fin(st) == [pc |-> st.pc, result |-> st.result,
                         trace |-> st.trace, left |-> Len(st.args)]
         IN  Apply(Fin, RunLoop(prog, [pc |-> pc, args |-> <<>>,
                                       result |-> TvNull, trace |-> trace,
                                       done |-> FALSE], VmLog))

\* the statement "result v", statement number k
ResultStmt(k, v) == <<Ins("VAL", 0, v), Ins("RESULT", k, TvNull)>>

\* compileblock: a block with the compiled statements body
compileblock(body) ==
    IF body = <<>> THEN <<Op("EMPTY")>>
    ELSE <<Ins("BLOCK", Len(body) + 2, TvNull), Op("OFFSET")>> \o body
             \o <<Op("EXIT")>>

\* gen_main: a whole program
gen_main(stmts) == <<Op("START")>> \o stmts \o <<Op("EXIT")>>

\* a block operand: no statement, or the statement "result v"
BlockBody(b, k) == IF b.kind = "empty" THEN <<>> ELSE ResultStmt(k, b.v)

\* a mutant: the jump over the first block is one instruction short
IfFalseJump_short(start1, start2) == start2 - start1 - 1

\* how far the conditional jump that replaces the first block goes
IfFalseJump(start1, start2) == start2 - start1

\* compilestatements for "if c [A] [B]" with a literal condition
compile_if(c, A, B) ==
    LET cond   == <<Ins("VAL", 0, c)>>
        start1 == Len(cond) + 1
        blk1   == compileblock(BlockBody(A, 1))
        start2 == start1 + Len(blk1)
        blk2   == compileblock(BlockBody(B, 2))
        code   == cond \o blk1 \o blk2
        len1   == start2 - (start1 + 1)
        len2   == Len(code) + 1 - (start2 + 1)
        isblk1 == code[start1].op = "BLOCK" /\ code[start1].n = len1
        isblk2 == code[start2].op = "BLOCK" /\ code[start2].n = len2
    IN  IF isblk2 /\ isblk1
        THEN [code EXCEPT
                ![start1] = Ins("JUMP_FALSE", IfFalseJump(start1, start2), TvNull),
                ![start1 + 1] = Op("ENTER_RESULT"),
                ![start2] = Ins("JUMP", len2, TvNull),
                ![start2 + 1] = Op("ENTER_RESULT")]
        ELSE IF isblk2 /\ code[start1].op = "EMPTY" /\ len1 = 0
        THEN [code EXCEPT
                ![start1] = Op("NULL"),
                ![start2] = Ins("JUMP_TRUE", len2, TvNull),
                ![start2 + 1] = Op("ENTER_RESULT")]
        ELSE code \o <<Com("COM", 3, "if")>>

\* the conditions and the blocks of the statements run
CondVals == {TvInt(0), TvInt(1), TvFloat(0, 0), TvFloat(5, -1), TvStr(<<>>),
             TvStr(<<"0">>), TvStr(<<"0", ".", "0">>), TvStr(<<"a">>)}
Blk(kind, v) == [kind |-> kind, v |-> v]
IfBlocks == {Blk("empty", TvNull)} \cup
            {Blk("block", v) : v \in {TvInt(0), TvInt(7), TvStr(<<"y">>)}}

\* a statement "if c [A] [B]" is about to be run
IfInit ==
    \E c \in CondVals, A \in IfBlocks, B \in IfBlocks :
        call = [op |-> "statement", c |-> c, A |-> A, B |-> B,
                form |-> "none", result |-> TvNull, trace |-> <<>>, left |-> 0]

\* the statement is compiled and run
RunIf ==
    /\ call.op = "statement"
    /\ \E prog \in {gen_main(compile_if(call.c, call.A, call.B))} :
         \E r \in {runcode(prog, 1, <<>>)} :
             call' = [call EXCEPT
                        !.op = "run",
                        !.form = IF prog[Len(prog) - 1].op = "COM"
                                 THEN "command" ELSE "jump",
                        !.result = r.result, !.trace = r.trace,
                        !.left = r.left]
    /\ UNCHANGED <<tvars, bvars, vvars, fvars, dvars>>

IfNext == RunIf

\* the statements a block executes and the result it leaves
BlockTrace(b, k) == IF b.kind = "empty" THEN <<>> ELSE <<k>>
BlockResult(b) == IF b.kind = "empty" THEN TvNull ELSE b.v

\* C17: "if c [A] [B]" executes exactly one of the two blocks, A when c is
\* truthy and B otherwise, and its result is the result of that block.
C17_IfExecutesOne ==
    call.op = "run" =>
        IF cs_get_bool(call.c)
        THEN call.trace = BlockTrace(call.A, 1)
             /\ call.result = BlockResult(call.A)
        ELSE call.trace = BlockTrace(call.B, 2)
             /\ call.result = BlockResult(call.B)

\* the jump-compiled form took the second block for a false condition
C17_Witness ==
    /\ call.op = "run" /\ call.form = "jump"
    /\ call.c = TvStr(<<"0", ".", "0">>)
    /\ call.A.kind = "block" /\ call.B.kind = "block"
    /\ call.trace = <<2>> /\ call.result = call.B.v

\* the command form took the first block for a true condition
C17_WitnessCommand ==
    /\ call.op = "run" /\ call.form = "command"
    /\ call.c = TvInt(1) /\ call.A.kind = "block"
    /\ call.trace = <<1>> /\ call.result = call.A.v

\* the statement leaves its stack empty
IfBalanced == call.op = "run" => call.left = 0

\* ---------------------------------------------------------------------------
\* && and ||

\* an operand of && and ||: a block [result v] or a bare word v, which is
\* compiled as a block; an empty block [ ]; a parenthesised statement
\* (result v), which is executed where it stands and leaves v
compile_operand(o, k) ==
    IF o.kind = "paren"
    THEN ResultStmt(0, o.v) \o <<Op("RESULT_ARG"), Op("COND")>>
    ELSE compileblock(BlockBody(o, k))

RECURSIVE AndOrArgs(_, _, _)
\* compilestatements for ID_AND and ID_OR, the loop over the operands after
\* the first: it ends when there is no operand left (more is false) or when
\* the operand compiled last is not exactly a block
AndOrArgs(ops, code, k) ==
    IF k > Len(ops) THEN [code |-> code, more |-> FALSE, k |-> k]
    ELSE LET end  == Len(code)
             Checked(c2) ==
                 IF c2[end + 1].op = "BLOCK"
                      /\ c2[end + 1].n = Len(c2) - (end + 1)
                 THEN AndOrArgs(ops, c2, k + 1)
                 ELSE [code |-> c2, more |-> TRUE, k |-> k + 1]
         IN  Apply(Checked, code \o compile_operand(ops[k], k))

RECURSIVE AndOrRest(_, _, _)
\* the operands compiled after the loop has given up the jump form
AndOrRest(ops, code, k) ==
    IF k > Len(ops) THEN code
    ELSE AndOrRest(ops, code \o compile_operand(ops[k], k), k + 1)

RECURSIVE AndOrPatch(_, _, _)
\* every block from start on becomes a jump to the end and an entered block;
\* start counts the code words before it
AndOrPatch(code, start, op) ==
    IF start + 1 < Len(code)
    THEN AndOrPatch([code EXCEPT
                        ![start + 1] = Ins(op, Len(code) - (start + 1), TvNull),
                        ![start + 2] = Op("ENTER")],
                    start + code[start + 1].n + 1, op)
    ELSE code

\* compilestatements for "&& o1 .. on" and "|| o1 .. on"
compile_andor(isand, ops) ==
    IF ops = <<>> THEN <<Op(IF isand THEN "TRUE" ELSE "FALSE")>>
    ELSE LET first == compile_operand(ops[1], 1)
             op    == IF isand THEN "JUMP_RESULT_FALSE" ELSE "JUMP_RESULT_TRUE"
             Done(a) ==
                 IF a.more
                 THEN AndOrRest(ops, a.code, a.k)
                          \o <<Com("COMV", Len(ops),
                                   IF isand THEN "&&" ELSE "||")>>
                 ELSE AndOrPatch(a.code \o <<Ins(op, 0, TvNull)>>,
                                 Len(first), op)
         IN  Apply(Done, AndOrArgs(ops, first, 2))

\* the format && and || are registered with
AndOrFormat == <<"E", "1", "V">>

\* the operands of the statements run
MaxOperands == 3
AndOrVals == {TvInt(0), TvInt(1)}
Operands == {Blk("empty", TvNull)} \cup
            {Blk(kind, v) : kind \in {"block", "paren"}, v \in AndOrVals}
OperandLists == UNION {[1..n -> Operands] : n \in 0..MaxOperands}

\* "&& o1 .. on" or "|| o1 .. on" is about to be evaluated
AndOrInit ==
    \E isand \in BOOLEAN, ops \in OperandLists :
        call = [op |-> "andor", isand |-> isand, ops |-> ops,
                form |-> "none", result |-> TvNull, trace |-> <<>>,
                left |-> 0]

\* the statement is compiled and run
RunAndOr ==
    /\ call.op = "andor"
    /\ \E prog \in {gen_main(compile_andor(call.isand, call.ops))} :
         \E r \in {runcode(prog, 1, <<>>)} :
             call' = [call EXCEPT
                        !.op = "run",
                        !.form = CASE prog[Len(prog) - 1].op = "COMV"
                                        -> "command"
                                   [] prog[Len(prog) - 1].op \in {"TRUE", "FALSE"}
                                        -> "constant"
                                   [] OTHER -> "jump",
                        !.result = r.result, !.trace = r.trace,
                        !.left = r.left]
    /\ UNCHANGED <<tvars, bvars, vvars, fvars, dvars>>

\* the command is called by its identifier: run_ret(id, args, ret) with the
\* values of the operands as args
CallAndOr ==
    /\ call.op = "andor"
    /\ \E prog \in {gen_main(AndOrRest(call.ops, <<>>, 1))} :
         \E st \in {RunLoop(prog, [pc |-> 1, args |-> <<>>, result |-> TvNull,
                                   trace |-> <<>>, done |-> FALSE], VmLog)} :
           \E r \in {cmd_andor(prog, call.isand,
                               callcommand(AndOrFormat, st.args, FALSE, TvNull),
                               st.trace)} :
             call' = [call EXCEPT !.op = "run", !.form = "called",
                                  !.result = r.result, !.trace = r.trace]
    /\ UNCHANGED <<tvars, bvars, vvars, fvars, dvars>>

AndOrNext == RunAndOr \/ CallAndOr

\* the value an operand has and the statements it executes when evaluated
OperandValue(o) == IF o.kind = "empty" THEN TvNull ELSE o.v
OperandTrace(o, k) == IF o.kind = "block" THEN <<k>> ELSE <<>>

\* the operand at which evaluation stops: the first whose value is truthy
\* for ||, falsy for &&, or the last
StopAt(isand, ops) ==
    IF \E k \in 1..Len(ops) : cs_get_bool(OperandValue(ops[k])) # isand
    THEN CHOOSE k \in 1..Len(ops) :
             /\ cs_get_bool(OperandValue(ops[k])) # isand
             /\ \A j \in 1..(k - 1) : cs_get_bool(OperandValue(ops[j])) = isand
    ELSE Len(ops)

RECURSIVE TraceTo(_, _)
\* the statements of the blocks of operands 1..k, in order
TraceTo(ops, k) ==
    IF k = 0 THEN <<>> ELSE TraceTo(ops, k - 1) \o OperandTrace(ops[k], k)

\* what the evaluation must yield and execute
AndOrHolds ==
    IF call.ops = <<>>
    THEN call.result = TvInt(IF call.isand THEN 1 ELSE 0) /\ call.trace = <<>>
    ELSE /\ call.result = OperandValue(call.ops[StopAt(call.isand, call.ops)])
         /\ call.trace = TraceTo(call.ops, StopAt(call.isand, call.ops))

\* C18: && and || evaluate their operands left to right, stop at the first
\* falsy (&&) or truthy (||) one, yield the value of the last operand
\* evaluated and never execute the blocks after it; without operands && yields
\* 1 and || yields 0; in the compiled forms and when the command is called.
C18_ShortCircuit == call.op = "run" => AndOrHolds

\* the same for the statements compiled by compilestatements alone
AndOrCompiled == (call.op = "run" /\ call.form # "called") => AndOrHolds

\* the same for the command called with at least one operand
AndOrCalled ==
    (call.op = "run" /\ call.form = "called" /\ call.ops # <<>>) => AndOrHolds

\* the command called without operands yields null
AndOrCalledEmpty ==
    (call.op = "run" /\ call.form = "called" /\ call.ops = <<>>)
        => call.result = TvNull

\* ---------------------------------------------------------------------------
\* escape and unescape.  A text is a sequence of characters; "dquote" is the
\* double quote, "bslash" the backslash, "LF", "TAB", "FF" and "CR" the
\* control characters \n, \t, \f and \r.

RECURSIVE escape_from(_, _)
\* util::escape_string, the loop over str from position k
escape_from(s, k) ==
    IF k > Len(s) THEN <<>>
    ELSE (CASE s[k] = "LF"     -> <<"^", "n">>
            [] s[k] = "TAB"    -> <<"^", "t">>
            [] s[k] = "FF"     -> <<"^", "f">>
            [] s[k] = "dquote" -> <<"^", "dquote">>
            [] s[k] = "^"      -> <<"^", "^">>
            [] OTHER           -> <<s[k]>>) \o escape_from(s, k + 1)

\* util::escape_string: what is written
escape_string(s) == <<"dquote">> \o escape_from(s, 1) \o <<"dquote">>

\* util::unescape_string: the character written for ^c
Unescaped(c) ==
    CASE c = "n" -> "LF"
      [] c = "t" -> "CR"
      [] c = "f" -> "FF"
      [] OTHER   -> c

RECURSIVE unescape_from(_, _)
\* util::unescape_string, the loop over str with the iterator at position k
unescape_from(s, k) ==
    IF k > Len(s) THEN <<>>
    ELSE IF s[k] = "^"
    THEN IF k + 1 > Len(s) THEN <<>>
         ELSE <<Unescaped(s[k + 1])>> \o unescape_from(s, k + 2)
    ELSE IF s[k] = "bslash"
    THEN IF k + 1 > Len(s) THEN <<>>
         ELSE IF s[k + 1] \in {"CR", "LF"}
         THEN unescape_from(s, IF s[k + 1] = "CR" /\ k + 2 <= Len(s)
                                     /\ s[k + 2] = "LF"
                               THEN k + 3 ELSE k + 2)
         ELSE <<"bslash">> \o unescape_from(s, k + 2)
    ELSE <<s[k]>> \o unescape_from(s, k + 1)

\* util::unescape_string: what is written
unescape_string(s) == unescape_from(s, 1)

\* the texts escaped
MaxEscLen == 3
EscChars == {"a", "^", "dquote", "bslash", "LF", "TAB", "FF"}
EscTexts == UNION {[1..n -> EscChars] : n \in 0..MaxEscLen}

\* a text is about to be escaped
EscapeInit ==
    \E s \in EscTexts :
        call = [op |-> "text", s |-> s, esc |-> <<>>, out |-> <<>>, size |-> 0]

\* the command escape: its result is what escape_string writes
Escape ==
    /\ call.op = "text"
    /\ call' = [call EXCEPT !.op = "escaped", !.esc = escape_string(call.s)]
    /\ UNCHANGED <<tvars, bvars, vvars, fvars, dvars>>

\* the command unescape on that result: out is the text in the buffer, size
\* the length the result is given
Unescape ==
    /\ call.op = "escaped"
    /\ call' = [call EXCEPT !.op = "unescaped",
                            !.out = unescape_string(call.esc),
                            !.size = Len(call.esc)]
    /\ UNCHANGED <<tvars, bvars, vvars, fvars, dvars>>

EscapeNext == Escape \/ Unescape

\* C19: for every string s, unescape applied to the result of escape applied
\* to s yields s again.
C19_RoundTrip == call.op = "unescaped" => call.out = call.s

\* a text without tabulator and backslash comes back between the two quotes
\* that escape puts around it
EscapeQuoted ==
    (call.op = "unescaped" /\ \A k \in 1..Len(call.s) :
                                  call.s[k] \notin {"TAB", "bslash"})
        => call.out = <<"dquote">> \o call.s \o <<"dquote">>

\* no text comes back as it was
EscapeNeverBack == call.op = "unescaped" => call.out # call.s

\* a tabulator comes back as a carriage return
EscapeTab ==
    (call.op = "unescaped" /\ call.s = <<"TAB">>)
        => call.out = <<"dquote", "CR", "dquote">>

\* after a backslash the next character of the escaped text is lost
EscapeBackslash ==
    (call.op = "unescaped" /\ call.s = <<"bslash">>)
        => call.out = <<"dquote", "bslash">>

\* ---------------------------------------------------------------------------
\* Names that look like numbers (CsState::new_ident, CsState::set_alias)

\* the identifier the constructor makes with new_ident("//dummy")
DummyName == <<"/", "/">>

\* the names tried
MaxNameLen == 3
NameChars == {"1", "+", "-", ".", "a"}
TriedNames == UNION {[1..n -> NameChars] : n \in 0..MaxNameLen}

\* idents.at(name): the type of the identifier of that name, or "none"
TypeAt(table, name) ==
    IF \E e \in table : e.name = name
    THEN (CHOOSE e \in table : e.name = name).type
    ELSE "none"

\* the table of a state: the dummy and at most one identifier the host has
\* registered, an alias or a command, whose name add_command does not examine
NameInit ==
    \E name \in TriedNames, nd \in 0..1,
       pre \in {"none", "ID_ALIAS", "ID_COMMAND"},
       prename \in {<<"1">>, <<"+", "1">>, <<"a">>} :
        call = [op |-> "name", name |-> name, nodebug |-> nd,
                table |-> {[name |-> DummyName, type |-> "ID_ALIAS"]} \cup
                          (IF pre = "none" THEN {}
                           ELSE {[name |-> prename, type |-> pre]}),
                before |-> {}, ret |-> <<>>, printed |-> "none"]

\* cs_debug_code: what is written
Debug(nd, msg) == IF nd # 0 THEN "none" ELSE msg

\* CsState::new_ident(name, flags)
NewIdentOld ==
    /\ call.op = "name"
    /\ call' =
         IF TypeAt(call.table, call.name) # "none"
         THEN [call EXCEPT !.op = "new_ident", !.before = call.table,
                           !.ret = call.name]
         ELSE IF cs_check_num(call.name)
         THEN [call EXCEPT !.op = "new_ident", !.before = call.table,
                           !.ret = DummyName,
                           !.printed = Debug(call.nodebug, "not a valid name")]
         ELSE [call EXCEPT !.op = "new_ident", !.before = call.table,
                           !.ret = call.name,
                           !.table = call.table \cup
                                     {[name |-> call.name, type |-> "ID_ALIAS"]}]
    /\ UNCHANGED <<tvars, bvars, vvars, fvars, dvars>>

\* CsState::set_alias(name, v)
SetAlias ==
    /\ call.op = "name"
    /\ call' =
         IF TypeAt(call.table, call.name) = "ID_ALIAS"
         THEN [call EXCEPT !.op = "set_alias", !.before = call.table]
         ELSE IF TypeAt(call.table, call.name) # "none"
         THEN [call EXCEPT !.op = "set_alias", !.before = call.table,
                           !.printed = Debug(call.nodebug, "cannot redefine")]
         ELSE IF cs_check_num(call.name)
         THEN [call EXCEPT !.op = "set_alias", !.before = call.table,
                           !.printed = Debug(call.nodebug, "cannot alias number")]
         ELSE [call EXCEPT !.op = "set_alias", !.before = call.table,
                           !.table = call.table \cup
                                     {[name |-> call.name, type |-> "ID_ALIAS"]}]
    /\ UNCHANGED <<tvars, bvars, vvars, fvars, dvars>>

NameNext == NewIdentOld \/ SetAlias

\* the names of the claim: a digit first, or +, - or . and then a digit
NumberName(s) ==
    \/ (Len(s) >= 1 /\ isdigit(s[1]))
    \/ (Len(s) >= 2 /\ s[1] \in {"+", "-", "."} /\ isdigit(s[2]))

\* the statement as it stands: such a name leaves the table unchanged, a
\* diagnostic is produced, and new_ident returns the dummy
C21_Original ==
    (call.op \in {"new_ident", "set_alias"} /\ NumberName(call.name))
        => /\ call.table = call.before
           /\ call.printed # "none"
           /\ (call.op = "new_ident" => call.ret = DummyName)

\* C21: a name that begins with a digit, or with +, - or . followed by a
\* digit, never becomes an identifier through new_ident or set_alias: the
\* table is unchanged; when no identifier of that name is registered, new_ident
\* returns the dummy, and a diagnostic is produced exactly when nodebug is 0.
C21_NumberNames ==
    (call.op \in {"new_ident", "set_alias"} /\ NumberName(call.name))
        => /\ call.table = call.before
           /\ TypeAt(call.before, call.name) = "none"
                => /\ call.printed # "none" <=> call.nodebug = 0
                   /\ (call.op = "new_ident" => call.ret = DummyName)

\* new_ident has refused the name -1 and said so
C21_Witness ==
    /\ call.op = "new_ident" /\ call.name = <<"-", "1">>
    /\ call.nodebug = 0 /\ call.printed = "not a valid name"
    /\ call.ret = DummyName /\ call.table = call.before

\* set_alias has refused the name .1a
C21_WitnessAlias ==
    /\ call.op = "set_alias" /\ call.name = <<".", "1", "a">>
    /\ call.printed = "cannot alias number" /\ call.table = call.before

\* every other name that is not registered becomes an alias
NameAdded ==
    (call.op \in {"new_ident", "set_alias"} /\ ~cs_check_num(call.name)
       /\ TypeAt(call.before, call.name) = "none")
        => TypeAt(call.table, call.name) = "ID_ALIAS"

\* ---------------------------------------------------------------------------
\* Calls of a name that is not in the table when the call is compiled

\* compilestatements for "f a1 .. an" with f unknown and not a number: the
\* name as a string, the arguments, CODE_CALLU
compile_callu(name, actuals) ==
    <<Ins("VAL", 0, TvStr(name))>>
        \o [k \in 1..Len(actuals) |-> Ins("VAL", 0, actuals[k])]
        \o <<Ins("CALLU", Len(actuals), TvNull)>>

\* the name called and what it may have become when the call executes: a
\* command taking two integers, a command taking all its arguments, an
\* integer variable, an alias with a body, an alias whose value is null
LateName == <<"f">>
LateKinds == {"command_ii", "command_V", "var", "alias", "alias_null"}
LateBody == ResultStmt(9, TvInt(5)) \o <<Op("EXIT")>>

\* the identifier of the name; code is where the alias's compiled body lies
LateIdent(kind, code) ==
    CASE kind = "command_ii" ->
           [name |-> LateName, type |-> "ID_COMMAND", fmt |-> <<"i", "i">>]
      [] kind = "command_V" ->
           [name |-> LateName, type |-> "ID_COMMAND", fmt |-> <<"V">>]
      [] kind = "var" -> [name |-> LateName, type |-> "ID_VAR"]
      [] kind = "alias" ->
           [name |-> LateName, type |-> "ID_ALIAS", val |-> TvStr(<<"b">>),
            code |-> code]
      [] kind = "alias_null" ->
           [name |-> LateName, type |-> "ID_ALIAS", val |-> TvNull,
            code |-> code]

\* the arguments of the calls compiled
MaxLateArgs == 2
LateVals == {TvInt(0), TvInt(7)}
LateActuals == UNION {[1..n -> LateVals] : n \in 0..MaxLateArgs}

\* a statement "f a1 .. an" is about to be compiled; f is not in the table
LateInit ==
    \E actuals \in LateActuals, nd \in 0..1 :
        call = [op |-> "source", actuals |-> actuals, nodebug |-> nd,
                def |-> "none", prog |-> <<>>, result |-> TvNull,
                trace |-> <<>>, said |-> <<>>, left |-> 0]

\* the statement is compiled
CompileLate ==
    /\ call.op = "source"
    /\ call' = [call EXCEPT
                  !.op = "compiled",
                  !.prog = gen_main(compile_callu(LateName, call.actuals))]
    /\ UNCHANGED <<tvars, bvars, vvars, fvars, dvars>>

\* the name is defined after the compilation
DefineLate ==
    /\ call.op = "compiled" /\ call.def = "none"
    /\ \E kind \in LateKinds : call' = [call EXCEPT !.def = kind]
    /\ UNCHANGED <<tvars, bvars, vvars, fvars, dvars>>

\* the compiled statement is run; an alias's body is compiled when it is
\* called first and lies behind the program
RunLate ==
    /\ call.op = "compiled"
    /\ \E mem \in {call.prog \o LateBody} :
        \E st \in {RunLoop(mem,
                     [pc |-> 1, args |-> <<>>, result |-> TvNull,
                      trace |-> <<>>, done |-> FALSE, said |-> <<>>,
                      env |-> [nodebug |-> call.nodebug,
                               idents |-> IF call.def = "none" THEN {}
                                          ELSE {LateIdent(call.def,
                                                          Len(call.prog) + 1)}]],
                     VmLog)} :
            call' = [call EXCEPT !.op = "run", !.result = st.result,
                                 !.trace = st.trace, !.said = st.said,
                                 !.left = Len(st.args)]
    /\ UNCHANGED <<tvars, bvars, vvars, fvars, dvars>>

LateNext == CompileLate \/ DefineLate \/ RunLate

\* what an unresolved call does: null, and the diagnostic
LateUnknown(said) ==
    /\ call.result = TvNull /\ call.trace = <<>>
    /\ call.said = IF said THEN <<"unknown command">> ELSE <<>>

\* what a resolved call does: the definition is invoked with the arguments
\* compiled, as many of them as it takes
LateInvoked ==
    /\ Len(call.trace) >= 1 /\ call.said = <<>>
    /\ call.trace[1].called = LateName
    /\ CASE call.def = "command_ii" ->
              /\ Len(call.trace[1].args) = 2
              /\ \A k \in 1..Len(call.actuals) :
                     k <= 2 => call.trace[1].args[k] = call.actuals[k]
         [] call.def = "var" ->
              call.trace[1].args = IF call.actuals = <<>> THEN <<>>
                                   ELSE <<call.actuals[1]>>
         [] call.def = "alias" ->
              /\ call.trace[1].args = call.actuals
              /\ call.trace = <<call.trace[1], 9>>
              /\ call.result = TvInt(5)
         [] OTHER -> call.trace[1].args = call.actuals

\* the statement as it stands: a name defined in between is invoked, a name
\* still undefined yields null with the diagnostic; the stack is balanced
C22_Original ==
    call.op = "run" =>
        /\ call.left = 0
        /\ IF call.def = "none" THEN LateUnknown(TRUE) ELSE LateInvoked

\* C22: a call of a name that is not in the table when compiled is resolved
\* when it executes.  A command, a variable or an alias with a value defined
\* in between is invoked with the compiled arguments.  A name that is still
\* undefined, or an alias whose value is null, yields null with the
\* diagnostic "unknown command" when nodebug is 0 and silently otherwise.  The
\* value stack is as deep after the statement as before it.
C22_LateBound ==
    call.op = "run" =>
        /\ call.left = 0
        /\ IF call.def \in {"none", "alias_null"}
           THEN LateUnknown(call.nodebug = 0)
           ELSE LateInvoked

\* a command defined after the compilation got the two compiled arguments
C22_Witness ==
    /\ call.op = "run" /\ call.def = "command_ii"
    /\ call.actuals = <<TvInt(7), TvInt(0)>>
    /\ call.trace = <<[called |-> LateName, args |-> <<TvInt(7), TvInt(0)>>]>>
    /\ call.left = 0

\* the name was still undefined when the call ran
C22_WitnessUnknown ==
    /\ call.op = "run" /\ call.def = "none" /\ call.nodebug = 0
    /\ Len(call.actuals) = 2
    /\ call.said = <<"unknown command">> /\ call.left = 0

\* ---------------------------------------------------------------------------
\* break and continue (src/src/cs_state.cc).  The loop commands, which raise
\* and lower thread_state::loop_level and catch the two sentinels, are
\* modelled from their description: a loop keeps the number of iterations it
\* still has to run.

\* a mutant: the innermost loop does not count
in_loop_nested(loop_level) == loop_level > 1

\* if (cs.p_tstate->loop_level)
in_loop(loop_level) == loop_level # 0

\* the callback of break
cmd_break(loop_level) ==
    IF in_loop(loop_level) THEN [thrown |-> "break_exception", what |-> ""]
    ELSE [thrown |-> "error", what |-> "no loop to break"]

\* the callback of continue
cmd_continue(loop_level) ==
    IF in_loop(loop_level) THEN [thrown |-> "continue_exception", what |-> ""]
    ELSE [thrown |-> "error", what |-> "no loop to continue"]

\* how deep loops nest and how often a loop runs
MaxLoopLevel == 4
MaxIterations == 3

\* a thread outside every loop
LoopInit ==
    call = [op |-> "none", loop_level |-> 0, loops |-> <<>>, before |-> 0,
            thrown |-> "none", what |-> ""]

\* the body of a loop ends, or a continue_exception reaches the loop: the
\* loop goes on with its next iteration and is left after its last
NextIteration(c) ==
    IF c.loops[Len(c.loops)] > 1
    THEN [c EXCEPT !.loops[Len(c.loops)] = c.loops[Len(c.loops)] - 1]
    ELSE [c EXCEPT !.loops = SubSeq(c.loops, 1, Len(c.loops) - 1),
                   !.loop_level = c.loop_level - 1]

\* a loop command starts a loop of n iterations
EnterLoop ==
    /\ Len(call.loops) < MaxLoopLevel
    /\ \E n \in 1..MaxIterations :
         call' = [call EXCEPT !.op = "loop", !.before = call.loop_level,
                              !.loop_level = call.loop_level + 1,
                              !.loops = Append(call.loops, n),
                              !.thrown = "none", !.what = ""]
    /\ UNCHANGED <<tvars, bvars, vvars, fvars, dvars>>

\* the body of the innermost loop runs to its end
EndBody ==
    /\ call.loops # <<>>
    /\ call' = NextIteration([call EXCEPT !.op = "body",
                                          !.before = call.loop_level,
                                          !.thrown = "none", !.what = ""])
    /\ UNCHANGED <<tvars, bvars, vvars, fvars, dvars>>

\* break is invoked; the innermost loop catches the sentinel and is left
Break ==
    /\ \E r \in {cmd_break(call.loop_level)} :
         call' = IF r.thrown = "break_exception" /\ call.loops # <<>>
                 THEN [call EXCEPT
                         !.op = "break", !.before = call.loop_level,
                         !.thrown = r.thrown, !.what = r.what,
                         !.loops = SubSeq(call.loops, 1, Len(call.loops) - 1),
                         !.loop_level = call.loop_level - 1]
                 ELSE [call EXCEPT !.op = "break", !.before = call.loop_level,
                                   !.thrown = r.thrown, !.what = r.what]
    /\ UNCHANGED <<tvars, bvars, vvars, fvars, dvars>>

\* continue is invoked; the innermost loop catches the sentinel
Continue ==
    /\ \E r \in {cmd_continue(call.loop_level)} :
         call' = IF r.thrown = "continue_exception" /\ call.loops # <<>>
                 THEN NextIteration([call EXCEPT
                                       !.op = "continue",
                                       !.before = call.loop_level,
                                       !.thrown = r.thrown, !.what = r.what])
                 ELSE [call EXCEPT !.op = "continue",
                                   !.before = call.loop_level,
                                   !.thrown = r.thrown, !.what = r.what]
    /\ UNCHANGED <<tvars, bvars, vvars, fvars, dvars>>

LoopNext == EnterLoop \/ EndBody \/ Break \/ Continue

\* C23: break (continue) raises the loop-control sentinel exactly when the
\* thread's loop level is nonzero; invoked at loop level zero it raises an
\* ordinary error, "no loop to break" ("no loop to continue"), and never the
\* sentinel.
C23_Sentinel ==
    /\ call.op = "break" =>
         IF call.before # 0
         THEN call.thrown = "break_exception"
         ELSE call.thrown = "error" /\ call.what = "no loop to break"
    /\ call.op = "continue" =>
         IF call.before # 0
         THEN call.thrown = "continue_exception"
         ELSE call.thrown = "error" /\ call.what = "no loop to continue"

\* break inside two nested loops has left the inner one
C23_Witness ==
    /\ call.op = "break" /\ call.before = 2 /\ call.loop_level = 1
    /\ call.thrown = "break_exception"

\* continue outside every loop
C23_WitnessOutside ==
    /\ call.op = "continue" /\ call.before = 0 /\ call.thrown = "error"
    /\ call.what = "no loop to continue"

\* the loop level is the number of loops running
LoopLevelCounts == call.loop_level = Len(call.loops)

\* ---------------------------------------------------------------------------
\* Threads (src/src/cs_state.cc).  tables holds the internal states, threads
\* the thread states: the internal state a thread points to, its ident_flags
\* and the thread it was made from (0 for a state the host constructed).

\* a mutant: the new thread gets an internal state of its own
thread_istate_own(threads, tables, t) == Len(tables) + 1

\* state::state(void *is) as new_thread calls it: p_tstate->istate = s
thread_istate(threads, tables, t) == threads[t].istate

\* state::new_thread through thread t
new_thread(threads, tables, t) ==
    LET is == thread_istate(threads, tables, t) IN
    [threads |-> Append(threads, [istate |-> is, ident_flags |-> {},
                                  parent |-> t]),
     tables  |-> IF is > Len(tables) THEN Append(tables, tables[threads[t].istate])
                 ELSE tables]

\* state::override_mode(v) and state::persist_mode(v) on a thread state:
\* the previous value of the flag and the ident_flags afterwards
set_mode(ts, flag, v) ==
    [was |-> flag \in ts.ident_flags,
     ts  |-> [ts EXCEPT !.ident_flags =
                IF v THEN ts.ident_flags \cup {flag}
                ELSE ts.ident_flags \ {flag}]]

\* how many threads and internal states there are at most
MaxThreads == 2
MaxStates == 2
ThreadNames == {"foo"}

\* one state constructed by the host
ThreadInit ==
    call = [op |-> "state", t |-> 1, v |-> FALSE, ret |-> FALSE,
            threads |-> <<[istate |-> 1, ident_flags |-> {}, parent |-> 0]>>,
            tables |-> <<ConstructedTable>>]

\* the host constructs another state, with an internal state of its own
NewState ==
    /\ Len(call.tables) < MaxStates /\ Len(call.threads) < MaxThreads
    /\ call' = [call EXCEPT
                  !.op = "state", !.t = Len(call.threads) + 1,
                  !.threads = Append(call.threads,
                                     [istate |-> Len(call.tables) + 1,
                                      ident_flags |-> {}, parent |-> 0]),
                  !.tables = Append(call.tables, ConstructedTable)]
    /\ UNCHANGED <<tvars, bvars, vvars, fvars, dvars>>

\* new_thread is called through thread t
NewThread ==
    /\ Len(call.threads) < MaxThreads
    /\ \E t \in 1..Len(call.threads) :
        \E r \in {new_thread(call.threads, call.tables, t)} :
          /\ Len(r.tables) <= MaxStates + 1
          /\ call' = [call EXCEPT !.op = "new_thread", !.t = t,
                                  !.threads = r.threads, !.tables = r.tables]
    /\ UNCHANGED <<tvars, bvars, vvars, fvars, dvars>>

\* override_mode(v) is called through thread t
OverrideMode ==
    /\ \E t \in 1..Len(call.threads), v \in BOOLEAN :
        \E r \in {set_mode(call.threads[t], "OVERRIDDEN", v)} :
          call' = [call EXCEPT !.op = "override_mode", !.t = t, !.v = v,
                               !.ret = r.was, !.threads[t] = r.ts]
    /\ UNCHANGED <<tvars, bvars, vvars, fvars, dvars>>

\* persist_mode(v) is called through thread t
PersistMode ==
    /\ \E t \in 1..Len(call.threads), v \in BOOLEAN :
        \E r \in {set_mode(call.threads[t], "PERSIST", v)} :
          call' = [call EXCEPT !.op = "persist_mode", !.t = t, !.v = v,
                               !.ret = r.was, !.threads[t] = r.ts]
    /\ UNCHANGED <<tvars, bvars, vvars, fvars, dvars>>

\* new_ident(n) is called through thread t
ThreadNewIdent ==
    /\ \E t \in 1..Len(call.threads), n \in ThreadNames :
        \E o \in {new_ident(call.tables[call.threads[t].istate], n,
                            {"UNKNOWN"})} :
          call' = [call EXCEPT !.op = "new_ident", !.t = t,
                               !.tables[call.threads[t].istate] = o.tbl]
    /\ UNCHANGED <<tvars, bvars, vvars, fvars, dvars>>

ThreadNext ==
    NewState \/ NewThread \/ OverrideMode \/ PersistMode \/ ThreadNewIdent

\* the table a thread looks identifiers up in
TableOf(c, t) == c.tables[c.threads[t].istate]

\* every identifier is found through u as it is through t: by name at the
\* same index, and by index the same object
SameIdents(c, t, u) ==
    /\ Len(TableOf(c, t).identmap) = Len(TableOf(c, u).identmap)
    /\ \A n \in ThreadNames :
           get_ident(TableOf(c, t), n) = get_ident(TableOf(c, u), n)
    /\ \A k \in 1..Len(TableOf(c, t).identmap) :
           TableOf(c, t).identmap[k] = TableOf(c, u).identmap[k]

\* what a call of override_mode or persist_mode does
ModeStep(flag, other) ==
    /\ call'.ret = (flag \in call.threads[call'.t].ident_flags)
    /\ (flag \in call'.threads[call'.t].ident_flags) = call'.v
    /\ (other \in call'.threads[call'.t].ident_flags)
           = (other \in call.threads[call'.t].ident_flags)
    /\ \A u \in 1..Len(call.threads) :
           u # call'.t => call'.threads[u] = call.threads[u]
    /\ call'.tables = call.tables

\* C24: a state made by new_thread shares the creator's identifier table: an
\* identifier defined through either is found by name and by index through
\* the other.  It has its own mode flags: override_mode(v) and persist_mode(v)
\* return the previous value of that thread's flag and change neither the
\* other flag nor any flag of another thread.
C24_Threads ==
    [][/\ \A u \in 1..Len(call'.threads) :
             call'.threads[u].parent # 0
                 => SameIdents(call', u, call'.threads[u].parent)
       /\ call'.op = "override_mode" => ModeStep("OVERRIDDEN", "PERSIST")
       /\ call'.op = "persist_mode" => ModeStep("PERSIST", "OVERRIDDEN")]_vars

\* an identifier defined through the creator after the thread was made is
\* found through the thread, whose override flag differs from the creator's
C24_Witness ==
    /\ Len(call.threads) >= 2 /\ call.threads[2].parent = 1
    /\ call.op = "new_ident" /\ call.t = 1
    /\ get_ident(TableOf(call, 2), "foo") # NULL
    /\ "OVERRIDDEN" \in call.threads[2].ident_flags
    /\ "OVERRIDDEN" \notin call.threads[1].ident_flags

\* override_mode(FALSE) returned true on a thread in persist mode
C24_WitnessMode ==
    /\ call.op = "override_mode" /\ call.t = 2 /\ ~call.v /\ call.ret
    /\ call.threads[2].ident_flags = {"PERSIST"}
    /\ call.threads[2].parent = 1

\* a state the host constructed has a table of its own
OwnTable ==
    \A u \in 1..Len(call.threads) :
        (call.op # "none" /\ call.threads[u].parent = 0 /\ u # 1)
            => call.threads[u].istate # call.threads[1].istate

\* ---------------------------------------------------------------------------
\* The statement "result $x"

\* CsState::new_ident(name) as compilelookup calls it: the identifier of
\* that name, the dummy for a name that is a number, or a new alias that is
\* flagged unknown and has no value
lookupid(table, name, nd) ==
    IF IdentAt(table, name).type # "none"
    THEN [table |-> table, id |-> name, said |-> <<>>]
    ELSE IF cs_check_num(name)
    THEN [table |-> table, id |-> DummyName,
          said |-> IF nd # 0 THEN <<>> ELSE <<"not a valid name">>]
    ELSE [table |-> table \cup {[name |-> name, type |-> "ID_ALIAS",
                                 val |-> TvNull, flags |-> {"UNKNOWN"}]},
          id |-> name, said |-> <<>>]

\* the default arguments compilelookup generates for a command
LookupDefaults(fmt) ==
    [k \in 1..Len(fmt) |->
        Ins("VAL", 0, IF fmt[k] = "i" THEN TvInt(0) ELSE TvStr(<<>>))]

\* compilelookup of a word with ltype VAL_ANY and prevargs below MaxResults:
\* the table after it, the code, and what it printed
compilelookup(table, name, nd) ==
    LET r  == lookupid(table, name, nd)
        id == IdentAt(r.table, r.id)
        code ==
          CASE id.type = "ID_VAR" -> <<Com("IVAR", 0, id.name)>>
            [] id.type = "ID_ALIAS" -> <<Com("LOOKUP", 0, id.name)>>
            [] id.type = "ID_COMMAND" ->
                 LookupDefaults(id.fmt)
                     \o <<Com("COM", Len(id.fmt), id.name), Op("RESULT_ARG")>>
    IN [table |-> r.table, code |-> code, said |-> r.said]

\* the identifiers there are before the statement: an integer variable, an
\* alias with a value, an alias flagged unknown, a command of the host, and
\* the dummy
LookupVarVals == {0, 7}
LookupAliasVals == {TvInt(5), TvInt(-3), TvStr(<<"y">>), TvStr(<<>>)}
LookupTable(iv, av) ==
    {[name |-> <<"v">>, type |-> "ID_VAR", val |-> TvInt(iv), flags |-> {}],
     [name |-> <<"a">>, type |-> "ID_ALIAS", val |-> av, flags |-> {}],
     [name |-> <<"u">>, type |-> "ID_ALIAS", val |-> TvNull,
      flags |-> {"UNKNOWN"}],
     [name |-> <<"c">>, type |-> "ID_COMMAND", fmt |-> <<"i", "s">>,
      flags |-> {}],
     [name |-> DummyName, type |-> "ID_ALIAS", val |-> TvNull,
      flags |-> {"UNKNOWN"}]}

\* the names looked up: the identifiers, a name not in the table, a number
LookupNames == {<<"v">>, <<"a">>, <<"u">>, <<"c">>, <<"n">>, <<"1">>}

\* the statement "result $x" is about to be compiled
LookupInit ==
    \E x \in LookupNames, iv \in LookupVarVals, av \in LookupAliasVals,
       nd \in 0..1 :
        call = [op |-> "source", x |-> x, nodebug |-> nd,
                before |-> LookupTable(iv, av), table |-> LookupTable(iv, av),
                prog |-> <<>>, result |-> TvNull, trace |-> <<>>,
                said |-> <<>>, left |-> 0]

\* compilestatements ID_RESULT: the argument, then CODE_RESULT
CompileLookup ==
    /\ call.op = "source"
    /\ \E r \in {compilelookup(call.table, call.x, call.nodebug)} :
         call' = [call EXCEPT
                    !.op = "compiled", !.table = r.table, !.said = r.said,
                    !.prog = gen_main(r.code \o <<Ins("RESULT", 0, TvNull)>>)]
    /\ UNCHANGED <<tvars, bvars, vvars, fvars, dvars>>

\* the compiled statement is run
RunLookup ==
    /\ call.op = "compiled"
    /\ \E st \in {RunLoop(call.prog,
                    [pc |-> 1, args |-> <<>>, result |-> TvNull,
                     trace |-> <<>>, done |-> FALSE, said |-> call.said,
                     env |-> [nodebug |-> call.nodebug,
                              idents |-> call.table]],
                    VmLog)} :
         call' = [call EXCEPT !.op = "run", !.result = st.result,
                              !.trace = st.trace, !.said = st.said,
                              !.left = Len(st.args)]
    /\ UNCHANGED <<tvars, bvars, vvars, fvars, dvars>>

LookupNext == CompileLookup \/ RunLookup

\* the value of identifier x as the lookup yields it: a variable's integer,
\* an alias's value as a string
LookupValue(x) ==
    LET id == IdentAt(call.before, x) IN
    IF id.type = "ID_VAR" THEN id.val ELSE TvStr(get_str(id.val))

\* what the lookup of an alias flagged unknown prints
LookupUnknown ==
    IF call.nodebug # 0 THEN <<>> ELSE <<"unknown alias lookup">>

\* the statement as it stands: for every name the value comes back, the
\* table is as before, and nothing else happens
C25_Original ==
    call.op = "run" =>
        /\ call.table = call.before
        /\ call.trace = <<>>
        /\ IdentAt(call.before, call.x).type \in {"ID_VAR", "ID_ALIAS"}
        /\ call.result = LookupValue(call.x)

\* C25: running result $x for a variable or an alias x that is in the table
\* returns its value, an alias's as a string, and leaves the table, every
\* value and every flag as they were.  For a name that is not in the table
\* and is no number the compilation enters x as an alias flagged unknown, and
\* the run returns the empty string.  For a name that is a number the dummy
\* is looked up, and the table stays.  For a command x the command is called
\* with its default arguments and its result returned.  Looking up an alias
\* flagged unknown prints a diagnostic when nodebug is 0.
C25_Lookup ==
    call.op = "run" =>
        LET id == IdentAt(call.before, call.x) IN
        /\ call.left = 0
        /\ CASE id.type = "ID_VAR" ->
                  /\ call.table = call.before /\ call.trace = <<>>
                  /\ call.result = LookupValue(call.x)
                  /\ call.said = <<>>
             [] id.type = "ID_ALIAS" ->
                  /\ call.table = call.before /\ call.trace = <<>>
                  /\ call.result = LookupValue(call.x)
                  /\ call.said = IF "UNKNOWN" \in id.flags
                                 THEN LookupUnknown ELSE <<>>
             [] id.type = "ID_COMMAND" ->
                  /\ call.table = call.before
                  /\ call.trace = <<[called |-> call.x,
                                     args |-> <<TvInt(0), TvStr(<<>>)>>]>>
                  /\ call.result = TvNull
             [] id.type = "none" /\ cs_check_num(call.x) ->
                  /\ call.table = call.before /\ call.trace = <<>>
                  /\ call.result = TvStr(<<>>)
                  /\ call.said = (IF call.nodebug # 0 THEN <<>>
                                  ELSE <<"not a valid name">>) \o LookupUnknown
             [] OTHER ->
                  /\ call.table = call.before \cup
                        {[name |-> call.x, type |-> "ID_ALIAS",
                          val |-> TvNull, flags |-> {"UNKNOWN"}]}
                  /\ call.table # call.before
                  /\ call.trace = <<>>
                  /\ call.result = TvStr(<<>>)
                  /\ call.said = LookupUnknown

\* an alias holding an integer was looked up
C25_Witness ==
    /\ call.op = "run" /\ call.x = <<"a">>
    /\ IdentAt(call.before, call.x).val = TvInt(-3)
    /\ call.result = TvStr(<<"-", "3">>)

\* a name that was not in the table was looked up
C25_WitnessNew ==
    /\ call.op = "run" /\ call.x = <<"n">>
    /\ IdentAt(call.before, call.x).type = "none"
    /\ IdentAt(call.table, call.x).type = "ID_ALIAS"

\* the run itself leaves the table alone: only the compilation adds to it
LookupRunKeeps ==
    [][call.op = "compiled" => call'.table = call.table]_vars

\* ---------------------------------------------------------------------------
\* Integers through their string form

\* the integers tried: the small ones, the ends of the range, the powers of
\* ten and the values around which the parser's accumulator wraps
MaxSmallInt == 24
IntSamples ==
    (-MaxSmallInt..MaxSmallInt)
        \cup {INT_MIN, INT_MIN + 1, INT_MAX, INT_MAX - 1}
        \cup {100, -100, 1000000000, -1000000000, 999999999, -999999999,
              214748364, 214748365, -214748364, -214748365,
              429496729, 429496730, 1073741824, -1073741824,
              2147483640, -2147483640}

\* an integer is about to be formatted
IntInit ==
    \E n \in IntSamples :
        call = [op |-> "int", n |-> n, text |-> <<>>, back |-> 0]

\* intstr(n)
IntFormat ==
    /\ call.op = "int"
    /\ call' = [call EXCEPT !.op = "text", !.text = intstr(call.n)]
    /\ UNCHANGED <<tvars, bvars, vvars, fvars, dvars>>

\* cs_parse_int of the text
IntParse ==
    /\ call.op = "text"
    /\ call' = [call EXCEPT !.op = "back", !.back = cs_parse_int(call.text)]
    /\ UNCHANGED <<tvars, bvars, vvars, fvars, dvars>>

IntNext == IntFormat \/ IntParse

\* C26: for every integer n, parsing the base-10 string form of n with the
\* string-to-integer conversion yields n
C26_RoundTrip == call.op = "back" => call.back = call.n

\* the smallest integer went through its string form
C26_Witness ==
    /\ call.op = "back" /\ call.n = INT_MIN
    /\ call.text = <<"-", "2", "1", "4", "7", "4", "8", "3", "6", "4", "8">>

\* the largest integer went through its string form
C26_WitnessMax ==
    /\ call.op = "back" /\ call.n = INT_MAX
    /\ call.text = <<"2", "1", "4", "7", "4", "8", "3", "6", "4", "7">>

\* the string form is the sign and the digits without a leading zero, so the
\* parser reads it in base ten
IntCanonical ==
    call.op \in {"text", "back"} =>
        /\ call.text # <<>>
        /\ (call.n < 0) = (call.text[1] = "-")
        /\ LET first == IF call.n < 0 THEN call.text[2] ELSE call.text[1] IN
           first = "0" => call.n = 0

\* ---------------------------------------------------------------------------
\* The compiled code an alias caches

\* an alias: its value, the text its cached code was compiled from or
\* NoCode, its stack of saved values (the top is last), its flags
NoCode == <<"nullptr">>
AliasOf(val, code, stack, flags) ==
    [val |-> val, code |-> code, stack |-> stack, flags |-> flags]

\* Ident::clean_code
clean_code(A) == [A EXCEPT !.code = NoCode]

\* Ident::push_arg(v, st, um), st being the cell named cell
alias_push_arg(A, v, cell, um) ==
    LET A1 == clean_code([A EXCEPT
                            !.stack = Append(A.stack,
                                             [val |-> A.val, cell |-> cell]),
                            !.val = v])
    IN  IF um THEN [A1 EXCEPT !.flags = @ \ {"UNKNOWN"}] ELSE A1

\* Ident::pop_arg
alias_pop_arg(A) ==
    IF A.stack = <<>> THEN A
    ELSE clean_code([A EXCEPT !.val = Top(A.stack).val,
                              !.stack = Drop(A.stack, 1)])

\* Ident::undo_arg(st): the alias and what st holds afterwards
alias_undo_arg(A) ==
    [alias |-> clean_code([A EXCEPT !.val = Top(A.stack).val,
                                    !.stack = Drop(A.stack, 1)]),
     st |-> [val |-> A.val, next |-> Top(A.stack)]]

\* Ident::redo_arg(st)
alias_redo_arg(A, st) ==
    clean_code([A EXCEPT !.stack = Append(A.stack,
                                          [st.next EXCEPT !.val = A.val]),
                         !.val = st.val])

\* Ident::set_arg: used tells whether the running alias has the argument
alias_set_arg(A, v, used) ==
    IF used THEN clean_code([A EXCEPT !.val = v])
    ELSE alias_push_arg(A, v, "arg", FALSE)

\* Ident::set_alias
alias_set_alias(A, v, identflags0) ==
    [clean_code([A EXCEPT !.val = v]) EXCEPT !.flags = identflags0]

\* a mutant: the mark is cleared, the value and the code are left
alias_clear_override_mark_only(A) == [A EXCEPT !.flags = @ \ {"OVERRIDDEN"}]

\* CsState::clear_override on an alias
alias_clear_override(A) ==
    IF "OVERRIDDEN" \notin A.flags THEN A
    ELSE IF A.val = TvStr(<<>>)
    THEN [A EXCEPT !.flags = @ \ {"OVERRIDDEN"}]
    ELSE [clean_code([A EXCEPT !.val = TvStr(<<>>)])
             EXCEPT !.flags = @ \ {"OVERRIDDEN"}]

\* cs_set_iter(id, i, stack) with an integer: the cell of the loop is on top
\* of the alias's stack from the second iteration on
cs_set_iter(A, i) ==
    IF A.stack # <<>> /\ Top(A.stack).cell = "loop"
    THEN IF A.val.t # "int"
         THEN clean_code([A EXCEPT !.val = TvInt(i)])
         ELSE [A EXCEPT !.val = TvInt(i)]
    ELSE alias_push_arg(A, TvInt(i), "loop", TRUE)

\* CALLALIAS: if (!id->code) id->code = compile(id->get_str())
callalias_code(A) ==
    IF A.code = NoCode THEN [A EXCEPT !.code = get_str(A.val)] ELSE A

\* the values given to the alias, the depth of its stack, the iterations of
\* a loop
AliasVals == {TvNull, TvInt(0), TvStr(<<"x">>)}
MaxSaved == 2
MaxLoopTurns == 2

\* an alias with a value and no cached code; no loop runs, nothing is undone
AliasCodeInit ==
    \E v \in AliasVals :
        call = [op |-> "alias", alias |-> AliasOf(v, NoCode, <<>>, {}),
                used |-> FALSE, undone |-> <<>>, turn |-> 0]

AliasBecomes(op, A) ==
    /\ call' = [call EXCEPT !.op = op, !.alias = A]
    /\ UNCHANGED <<tvars, bvars, vvars, fvars, dvars>>

\* the alias is called: its code is compiled unless it is cached
CallAlias ==
    /\ call.alias.val.t # "null"
    /\ AliasBecomes("call", callalias_code(call.alias))

\* an assignment to the alias
AliasSetAlias ==
    /\ call.undone = <<>>
    /\ \E v \in AliasVals, f \in {{}, {"OVERRIDDEN"}} :
        AliasBecomes("set_alias", alias_set_alias(call.alias, v, f))

\* a value is pushed: an argument of a call, or a local
AliasPushArg ==
    /\ Len(call.alias.stack) < MaxSaved
    /\ \E v \in AliasVals :
        AliasBecomes("push_arg", alias_push_arg(call.alias, v, "arg", FALSE))

\* the value pushed last is popped; a loop pops its own cell when it ends
AliasPopArg ==
    /\ call.alias.stack # <<>> => Top(call.alias.stack).cell = "arg"
    /\ call.undone = <<>>
    /\ AliasBecomes("pop_arg", alias_pop_arg(call.alias))

\* cs_do_args: the argument is undone for the body
AliasUndoArg ==
    /\ call.alias.stack # <<>> /\ call.undone = <<>>
    /\ \E r \in {alias_undo_arg(call.alias)} :
         call' = [call EXCEPT !.op = "undo_arg", !.alias = r.alias,
                              !.undone = <<r.st>>]
    /\ UNCHANGED <<tvars, bvars, vvars, fvars, dvars>>

\* cs_do_args: the argument is redone after the body
AliasRedoArg ==
    /\ call.undone # <<>>
    /\ call' = [call EXCEPT
                  !.op = "redo_arg", !.undone = <<>>,
                  !.alias = alias_redo_arg(call.alias, call.undone[1])]
    /\ UNCHANGED <<tvars, bvars, vvars, fvars, dvars>>

\* an assignment to an argument alias
AliasSetArg ==
    /\ call.used \/ Len(call.alias.stack) < MaxSaved
    /\ \E v \in AliasVals :
         call' = [call EXCEPT !.op = "set_arg", !.used = TRUE,
                              !.alias = alias_set_arg(call.alias, v, call.used)]
    /\ UNCHANGED <<tvars, bvars, vvars, fvars, dvars>>

\* cs_do_loop: the next iteration begins; whatever the body pushed is popped
AliasSetIter ==
    /\ call.turn < MaxLoopTurns /\ call.undone = <<>>
    /\ IF call.turn = 0 THEN Len(call.alias.stack) < MaxSaved
       ELSE Top(call.alias.stack).cell = "loop"
    /\ call' = [call EXCEPT !.op = "set_iter", !.turn = @ + 1,
                            !.alias = cs_set_iter(call.alias, call.turn)]
    /\ UNCHANGED <<tvars, bvars, vvars, fvars, dvars>>

\* cs_do_loop: the loop ends, id.pop_arg()
AliasLoopEnd ==
    /\ call.turn > 0 /\ call.undone = <<>>
    /\ Top(call.alias.stack).cell = "loop"
    /\ call' = [call EXCEPT !.op = "loop_end", !.turn = 0,
                            !.alias = alias_pop_arg(call.alias)]
    /\ UNCHANGED <<tvars, bvars, vvars, fvars, dvars>>

\* the host clears the override
AliasClearOverride ==
    /\ "OVERRIDDEN" \in call.alias.flags
    /\ AliasBecomes("clear_override", alias_clear_override(call.alias))

AliasCodeNext ==
    \/ CallAlias \/ AliasSetAlias \/ AliasPushArg \/ AliasPopArg
    \/ AliasUndoArg \/ AliasRedoArg \/ AliasSetArg \/ AliasSetIter
    \/ AliasLoopEnd \/ AliasClearOverride

\* C27: whenever an alias holds cached compiled code, the code is the
\* compilation of the alias's current value
C27_CacheCurrent ==
    call.alias.code # NoCode => call.alias.code = get_str(call.alias.val)

\* every operation but the integer update of a loop iterator drops the
\* cached code when it changes the value
CacheDropped ==
    [][call'.alias.val # call.alias.val /\ call'.op # "set_iter"
          => call'.alias.code = NoCode]_vars

\* a loop's second iteration has given its iterator a new integer while the
\* code compiled from the previous one is cached
CacheStale ==
    /\ call.op = "set_iter" /\ call.turn = 2
    /\ call.alias.val = TvInt(1)
    /\ call.alias.code = <<"0">>

\* ---------------------------------------------------------------------------
\* The depth of the value stack of an activation of runcode

MaxResults == 7

\* the callee of the statements compiled: a name that is not in the table
\* (a late-bound call) or an alias that is
NestName == <<"x">>
NestKinds == {"callu", "call"}

RECURSIVE compile_nested(_, _, _, _, _)
\* compilestatements for d statements in each other,
\* "x 1 .. a (x 1 .. a ( .. (x 1 .. n)))": the name when it is not in the
\* table, the arguments with prevargs + numargs, the call.  compilearg of
\* '(' opens an activation when prevargs has reached MaxResults and compiles
\* the statement in place with the same prevargs otherwise.
compile_nested(kind, a, d, n, prevargs) ==
    LET head == IF kind = "callu"
                THEN <<Ins("VAL", 0, TvStr(NestName))>> ELSE <<>>
        lits(k) == [j \in 1..k |-> Ins("VAL", 0, TvInt(j))]
        callee(k) == IF kind = "callu" THEN Ins("CALLU", k, TvNull)
                     ELSE Com("CALL", k, NestName)
        paren == IF prevargs + a >= MaxResults
                 THEN <<Op("ENTER")>> \o compile_nested(kind, a, d - 1, n, 0)
                          \o <<Op("EXIT")>>
                 ELSE compile_nested(kind, a, d - 1, n, prevargs + a)
                          \o <<Op("RESULT_ARG")>>
    IN  IF d = 1 THEN head \o lits(n) \o <<callee(n)>>
        ELSE head \o lits(a) \o paren \o <<callee(a + 1)>>

\* the statements tried: the literal arguments before the nested statement,
\* the statements in each other, the arguments of the innermost
MaxLits == 6
MaxNest == 3
InnerArgs == {0, MaxArguments - 1, MaxArguments}

\* a source is about to be compiled
NestInit ==
    \E kind \in NestKinds, a \in 0..MaxLits, d \in 1..MaxNest,
       n \in InnerArgs :
        call = [op |-> "source", kind |-> kind, a |-> a, d |-> d, n |-> n,
                prog |-> <<>>, pc |-> 0, acts |-> <<>>, fault |-> "none"]

\* the source is compiled and runcode entered: numargs = 0
CompileNested ==
    /\ call.op = "source"
    /\ call' = [call EXCEPT
                  !.op = "run", !.pc = 1, !.acts = <<0>>,
                  !.prog = gen_main(compile_nested(call.kind, call.a, call.d,
                                                   call.n, 0))]
    /\ UNCHANGED <<tvars, bvars, vvars, fvars, dvars>>

\* args[numargs++] = v in the running activation: a write past the end of
\* TaggedValue args[MaxArguments + MaxResults] is undefined
PushValue(c) ==
    IF Top(c.acts) >= MaxArguments + MaxResults
    THEN [c EXCEPT !.fault = "ub", !.op = "done"]
    ELSE [c EXCEPT !.pc = @ + 1, !.acts[Len(c.acts)] = @ + 1]

Running(ops) ==
    /\ call.op = "run" /\ call.prog[call.pc].op \in ops

\* CODE_START
ExecStart ==
    /\ Running({"START"})
    /\ call' = [call EXCEPT !.pc = @ + 1]
    /\ UNCHANGED <<tvars, bvars, vvars, fvars, dvars>>

\* CODE_VAL, CODE_MACRO, CODE_RESULT_ARG
ExecPush ==
    /\ Running({"VAL", "RESULT_ARG"})
    /\ call' = PushValue(call)
    /\ UNCHANGED <<tvars, bvars, vvars, fvars, dvars>>

\* CODE_CALL and CODE_CALLARG free the arguments on every path, CODE_CALLU
\* the name under them too
ExecCall ==
    /\ Running({"CALL", "CALLARG", "CALLU"})
    /\ LET ins == call.prog[call.pc]
           offset == Top(call.acts) - ins.n
       IN call' = [call EXCEPT !.pc = @ + 1,
                     !.acts[Len(call.acts)] =
                        IF ins.op = "CALLU" THEN SKIPARGS(offset) ELSE offset]
    /\ UNCHANGED <<tvars, bvars, vvars, fvars, dvars>>

\* CODE_ENTER: code = runcode(cs, code, args[numargs++]), which is entered
\* with its own args
ExecEnter ==
    /\ Running({"ENTER"})
    /\ \E c \in {PushValue(call)} :
         call' = IF c.fault # "none" THEN c
                 ELSE [c EXCEPT !.acts = Append(@, 0)]
    /\ UNCHANGED <<tvars, bvars, vvars, fvars, dvars>>

\* CODE_EXIT: runcode returns where its code ends
ExecExit ==
    /\ Running({"EXIT"})
    /\ call' = IF Len(call.acts) = 1 THEN [call EXCEPT !.op = "done"]
               ELSE [call EXCEPT !.pc = @ + 1, !.acts = Drop(call.acts, 1)]
    /\ UNCHANGED <<tvars, bvars, vvars, fvars, dvars>>

NestNext ==
    \/ CompileNested \/ ExecStart \/ ExecPush \/ ExecCall \/ ExecEnter
    \/ ExecExit

\* C28: no activation ever holds more than MaxArguments + MaxResults values
\* on its value stack
C28_Capacity ==
    /\ call.fault = "none"
    /\ \A i \in 1..Len(call.acts) : call.acts[i] <= MaxArguments + MaxResults

\* calls of a name that is in the table keep every activation within its
\* capacity: prevargs is then the depth of the stack
KnownCalleeFits ==
    call.kind = "call" =>
        /\ call.fault = "none"
        /\ \A i \in 1..Len(call.acts) :
               call.acts[i] < MaxArguments + MaxResults

\* a late-bound call after six arguments of a late-bound call has pushed
\* its name and MaxArguments arguments
StackOverrun ==
    /\ call.kind = "callu" /\ call.d = 2 /\ call.a = MaxLits
    /\ call.n = MaxArguments /\ call.fault = "ub"

\* the statement leaves the stack of the activation as deep as it was
NestBalanced ==
    call.op = "done" /\ call.fault = "none" => call.acts = <<0>>

\* ---------------------------------------------------------------------------
\* The depth of the value stack before and after a statement

\* one turn of the loop over the format in compilestatements for a command:
\* st.rest actuals are still in the source, st.more tells whether the last
\* compilearg found one, st.code is what has been emitted
StmtStep(fmt, st) ==
    LET c     == fmt[st.p]
        got   == st.more /\ st.rest > 0
        Arg   == Ins("VAL", 0, TvNull)
        Skip  == [st EXCEPT !.p = st.p + 1, !.more = got]
        Taken == [st EXCEPT !.p = st.p + 1, !.more = TRUE,
                            !.rest = st.rest - 1,
                            !.numargs = st.numargs + 1,
                            !.code = Append(st.code, Arg)]
        Fake  == [st EXCEPT !.p = st.p + 1, !.more = FALSE,
                            !.numargs = st.numargs + 1,
                            !.fakeargs = st.fakeargs + 1,
                            !.code = Append(st.code, Arg)]
        Self  == [st EXCEPT !.p = st.p + 1, !.numargs = st.numargs + 1,
                            !.code = Append(st.code, Arg)]
        room(k) == IF MaxArguments - k < st.rest THEN MaxArguments - k
                   ELSE st.rest
    IN
    CASE c \in {"s", "S"} /\ got /\ st.p = Len(fmt) ->
           \* the last string takes the arguments that follow as well
           LET numconc == IF room(st.numargs) < 1 THEN 1
                          ELSE room(st.numargs)
           IN [st EXCEPT
                 !.p = st.p + 1, !.more = numconc >= MaxArguments - st.numargs,
                 !.rest = st.rest - numconc, !.numargs = st.numargs + 1,
                 !.code = st.code \o [k \in 1..numconc |-> Arg]
                             \o (IF numconc > 1
                                 THEN <<Ins("CONC", numconc, TvNull)>>
                                 ELSE <<>>)]
      [] c \in ParamChars /\ ~(c \in {"s", "S"} /\ got /\ st.p = Len(fmt)) ->
           IF got THEN Taken ELSE IF st.rep THEN Skip ELSE Fake
      [] c \in {"$", "N"} -> Self
      [] c \in {"C", "V"} ->
           LET n == IF st.more THEN room(st.numargs) ELSE 0 IN
           [st EXCEPT
              !.done = TRUE, !.rest = st.rest - n,
              !.code = st.code \o [k \in 1..n |-> Arg]
                          \o <<Ins(IF c = "C" THEN "COMC" ELSE "COMV",
                                   st.numargs + n, TvNull)>>]
      [] c \in RepChars ->
           IF st.more /\ st.numargs < MaxArguments
           THEN [st EXCEPT !.p = st.p - RepCount(c), !.rep = TRUE]
           ELSE [st EXCEPT
                   !.p = st.p + 1,
                   !.numargs = IF @ > MaxArguments THEN MaxArguments ELSE @,
                   !.code = st.code \o
                      [k \in 1..(IF st.numargs > MaxArguments
                                 THEN st.numargs - MaxArguments ELSE 0)
                         |-> Op("POP")]]
      [] OTHER -> [st EXCEPT !.p = st.p + 1]

RECURSIVE StmtLoop(_, _)
\* the loop over the format, and the CODE_COM that follows it
StmtLoop(fmt, st) ==
    IF st.done THEN st.code
    ELSE IF st.p > Len(fmt)
    THEN Append(st.code, Ins("COM", NumFormals(fmt), TvNull))
    ELSE LET Rest(t) == StmtLoop(fmt, t) IN Apply(Rest, StmtStep(fmt, st))

\* compilestatements for a command with n literal arguments
compile_command(fmt, n) ==
    StmtLoop(fmt, [p |-> 1, rest |-> n, more |-> TRUE, numargs |-> 0,
                   fakeargs |-> 0, rep |-> FALSE, done |-> FALSE,
                   code |-> <<>>])

\* the number of arguments compilestatements takes for an alias or an
\* unknown name
Capped(n) == IF n < MaxArguments THEN n ELSE MaxArguments

\* compilestatements for one statement with n literal arguments, by what
\* its first word is
compile_statement(kind, fmt, n) ==
    LET lits(k) == [j \in 1..k |-> Ins("VAL", 0, TvNull)] IN
    CASE kind = "command" -> compile_command(fmt, n)
      [] kind = "alias" ->
           lits(Capped(n)) \o <<Ins("CALL", Capped(n), TvNull)>>
      [] kind = "argument" ->
           lits(Capped(n)) \o <<Ins("CALLARG", Capped(n), TvNull)>>
      [] kind = "unknown" ->
           <<Ins("VAL", 0, TvStr(NestName))>> \o lits(Capped(n))
               \o <<Ins("CALLU", Capped(n), TvNull)>>
      [] kind = "number" -> <<Ins("VAL", 0, TvInt(1)), Op("RESULT")>>
      [] kind = "svar" ->
           lits(Capped(n))
               \o (IF n > 1 THEN <<Ins("CONC", Capped(n), TvNull)>> ELSE <<>>)
               \o <<Op("SVAR1")>>

\* the statements tried: the formats of the commands, the arguments written,
\* the values already on the stack when the statement begins
StmtKinds == {"command", "alias", "argument", "unknown", "number", "svar"}
StmtFormats ==
    {<<"i">>, <<"s">>, <<"i", "s">>, <<"i", "N">>, <<"$">>, <<"V">>, <<"C">>,
     <<"i", "V">>, <<"i", "1", "V">>, <<"s", "i", "2", "C">>, <<"D">>,
     <<"i", "D">>}
MaxStmtArgs == 3
MaxBase == 1

\* a statement is about to be compiled
StmtInit ==
    \E kind \in StmtKinds, fmt \in StmtFormats, n \in 0..MaxStmtArgs,
       base \in 0..MaxBase :
        /\ kind # "command" => fmt = <<"i">>
        /\ kind = "svar" => n >= 1
        /\ call = [op |-> "source", kind |-> kind, fmt |-> fmt, n |-> n,
                   base |-> base, prog |-> <<>>, pc |-> 0, acts |-> <<>>,
                   fault |-> "none"]

\* the statement is compiled and run with base values on the stack
CompileStmt ==
    /\ call.op = "source"
    /\ call' = [call EXCEPT
                  !.op = "run", !.pc = 1, !.acts = <<call.base>>,
                  !.prog = gen_main(compile_statement(call.kind, call.fmt,
                                                      call.n))]
    /\ UNCHANGED <<tvars, bvars, vvars, fvars, dvars>>

\* CODE_COM takes id->numargs values, CODE_COMV and CODE_COMC the number
\* encoded; an offset below 0 is outside args
ExecCom ==
    /\ Running({"COM", "COMV", "COMC"})
    /\ LET offset == Top(call.acts) - call.prog[call.pc].n IN
       call' = IF offset < 0 THEN [call EXCEPT !.fault = "ub", !.op = "done"]
               ELSE [call EXCEPT !.pc = @ + 1,
                                 !.acts[Len(call.acts)] = offset]
    /\ UNCHANGED <<tvars, bvars, vvars, fvars, dvars>>

\* CODE_CONC: the values encoded are replaced by one
ExecConc ==
    /\ Running({"CONC"})
    /\ call' = [call EXCEPT
                  !.pc = @ + 1,
                  !.acts[Len(call.acts)] = @ - call.prog[call.pc].n + 1]
    /\ UNCHANGED <<tvars, bvars, vvars, fvars, dvars>>

\* CODE_POP, CODE_RESULT, CODE_SVAR1: args[--numargs]
ExecPop ==
    /\ Running({"POP", "RESULT", "SVAR1"})
    /\ call' = [call EXCEPT !.pc = @ + 1, !.acts[Len(call.acts)] = @ - 1]
    /\ UNCHANGED <<tvars, bvars, vvars, fvars, dvars>>

StmtNext ==
    \/ CompileStmt \/ ExecStart \/ ExecPush \/ ExecCall \/ ExecCom
    \/ ExecConc \/ ExecPop \/ ExecExit

\* C29: after the instructions of a statement have executed, the value
\* stack of the activation is as deep as before the statement, and no
\* instruction has taken values from outside the stack
C29_Neutral ==
    /\ call.fault = "none"
    /\ call.op = "done" => call.acts = <<call.base>>

\* the statements whose callee is not a command with a D in its format
\* leave the stack as deep as it was
NeutralWithoutD ==
    ~(call.kind = "command" /\ \E k \in 1..Len(call.fmt) : call.fmt[k] = "D")
        => C29_Neutral

\* a command with the format "D" was called with a value under it on the
\* stack, and took it
StmtTookOne ==
    /\ call.op = "done" /\ call.fmt = <<"D">> /\ call.base = 1
    /\ call.acts = <<0>>

\* ---------------------------------------------------------------------------
\* Skipping a block when the recursion limit is reached

CODE_ENTER == 7
CODE_ENTER_RESULT == 8
CODE_VAL == 11
CODE_VALI == 12
CODE_MACRO == 14
CODE_RESULT == 21
CODE_COMV == 28
CODE_JUMP == 58
CODE_JUMP_RESULT_FALSE == 62
CODE_RET == 6

\* VAL_INT << CODE_RET, VAL_FLOAT << CODE_RET, VAL_STR << CODE_RET
RET_INT == 64
RET_FLOAT == 128
RET_STR == 192

\* the instruction stream is a sequence of 32-bit words; op & 0xFF, op >> 8
LowByte(w) == w % 256
Payload(w) == w \div 256

\* GenState::gen_int
gen_int(i) ==
    IF i >= -8388608 /\ i <= 8388607
    THEN <<CODE_VALI + RET_INT + i * 256>>
    ELSE <<CODE_VAL + RET_INT, i>>

\* GenState::gen_float: f is the float by its integer part, whether it is a
\* whole number, and its bits
gen_float(f) ==
    IF f.whole /\ f.i >= -8388608 /\ f.i <= 8388607
    THEN <<CODE_VALI + RET_FLOAT + f.i * 256>>
    ELSE <<CODE_VAL + RET_FLOAT, f.bits>>

\* the bytes of a word of the text, the first in the lowest byte
CharCode(c) == CASE c = "a" -> 97 [] c = "b" -> 98 [] c = "c" -> 99
                 [] c = "d" -> 100 [] OTHER -> 0
PackWord(s, k) ==
    CharCode(At(s, k)) + 256 * CharCode(At(s, k + 1))
        + 65536 * CharCode(At(s, k + 2)) + 16777216 * CharCode(At(s, k + 3))

\* GenState::gen_str(word): a short text in the instruction, a longer one
\* in the words that follow it
gen_str(s) ==
    IF Len(s) <= 3 THEN <<CODE_VALI + RET_STR + 256 * PackWord(s, 1)>>
    ELSE <<CODE_VAL + RET_STR + 256 * Len(s)>>
             \o [k \in 1..(Len(s) \div 4 + 1) |-> PackWord(s, 4 * k - 3)]

RECURSIVE skipcode_from(_, _, _)
\* the loop of skipcode at position pc with depth open blocks: where it
\* returns, or a read outside the code.  It has no case for CODE_VAL|RET_INT
\* and CODE_VAL|RET_FLOAT: the word after them is read as an instruction.
skipcode_from(code, pc, depth) ==
    IF pc < 1 \/ pc > Len(code) THEN [pc |-> pc, fault |-> "ub"]
    ELSE LET op   == code[pc]
             b    == LowByte(op)
             next == pc + 1
         IN
         CASE b \in {CODE_MACRO, CODE_VAL + RET_STR} ->
                skipcode_from(code, next + Payload(op) \div 4 + 1, depth)
           [] b = CODE_BLOCK \/ b \in CODE_JUMP..CODE_JUMP_RESULT_FALSE ->
                skipcode_from(code, next + Payload(op), depth)
           [] b \in {CODE_ENTER, CODE_ENTER_RESULT} ->
                skipcode_from(code, next, depth + 1)
           [] b % 64 = CODE_EXIT ->
                IF depth <= 0 THEN [pc |-> next, fault |-> "none"]
                ELSE skipcode_from(code, next, depth - 1)
           [] OTHER -> skipcode_from(code, next, depth)

\* skipcode(code)
skipcode(code, pc) == skipcode_from(code, pc, 0)

RECURSIVE runcode_end(_, _)
\* where runcode entered at pc returns: the instructions as runcode decodes
\* them, up to the CODE_EXIT of the block
runcode_end(code, pc) ==
    LET op   == code[pc]
        b    == LowByte(op)
        next == pc + 1
    IN
    CASE b \in {CODE_VAL + RET_INT, CODE_VAL + RET_FLOAT} ->
           runcode_end(code, next + 1)
      [] b \in {CODE_MACRO, CODE_VAL + RET_STR} ->
           runcode_end(code, next + Payload(op) \div 4 + 1)
      [] b \in {CODE_ENTER, CODE_ENTER_RESULT} ->
           runcode_end(code, runcode_end(code, next))
      [] b % 64 = CODE_EXIT -> next
      [] OTHER -> runcode_end(code, next)

\* the literals written in the block: integers that fit the instruction and
\* integers that do not, floats, texts
IntLits == {5, 16777216, 16777223, 16777225, 16777232}
FloatLits == {[whole |-> TRUE, i |-> 2, bits |-> 1073741824],
              [whole |-> FALSE, i |-> 0, bits |-> 1056964608],
              [whole |-> FALSE, i |-> 1, bits |-> 1065353225]}
StrLits == {<<"a", "b">>, <<"a", "b", "c", "d">>}
BlockItems ==
    {[kind |-> "int", n |-> n, f |-> CHOOSE f \in FloatLits : f.whole,
      s |-> <<>>] : n \in IntLits}
    \cup {[kind |-> "paren", n |-> n, f |-> CHOOSE f \in FloatLits : f.whole,
           s |-> <<>>] : n \in IntLits}
    \cup {[kind |-> "float", n |-> 0, f |-> f, s |-> <<>>] : f \in FloatLits}
    \cup {[kind |-> "str", n |-> 0, f |-> CHOOSE f \in FloatLits : f.whole,
           s |-> s] : s \in StrLits}
MaxItems == 2
SkippedBlocks == UNION {[1..k -> BlockItems] : k \in 0..MaxItems}

\* the call of a command that takes all its arguments, identifier 40
Comv(n) == CODE_COMV + n * 256 + 40 * 8192

\* the code of one argument: a literal, or a statement in parentheses that
\* runs in an activation of its own
gen_item(it) ==
    CASE it.kind = "int" -> gen_int(it.n)
      [] it.kind = "float" -> gen_float(it.f)
      [] it.kind = "str" -> gen_str(it.s)
      [] it.kind = "paren" ->
           <<CODE_ENTER>> \o gen_int(it.n) \o <<Comv(1), CODE_EXIT>>

RECURSIVE gen_items(_)
gen_items(items) ==
    IF items = <<>> THEN <<>>
    ELSE gen_item(items[1]) \o gen_items(SubSeq(items, 2, Len(items)))

\* a statement in parentheses that calls the command with the items, in an
\* activation of its own, and the statement "result" around it
gen_block(items) ==
    <<CODE_START, CODE_ENTER>> \o gen_items(items)
        \o <<Comv(Len(items)), CODE_EXIT + RET_STR, CODE_RESULT, CODE_EXIT>>

\* the first word of the block: the one after CODE_ENTER
BlockStart == Len(<<CODE_START, CODE_ENTER>>) + 1

\* a block is about to be compiled
SkipInit ==
    \E items \in SkippedBlocks :
        call = [op |-> "source", items |-> items, code |-> <<>>,
                skipped |-> [pc |-> 0, fault |-> "unset"], ran |-> 0]

\* the block is compiled
CompileBlock ==
    /\ call.op = "source"
    /\ call' = [call EXCEPT !.op = "compiled", !.code = gen_block(call.items)]
    /\ UNCHANGED <<tvars, bvars, vvars, fvars, dvars>>

\* runcode is entered for the block at the recursion limit and skips it
SkipBlock ==
    /\ call.op # "source" /\ call.skipped.fault = "unset"
    /\ call' = [call EXCEPT !.op = "skipped",
                            !.skipped = skipcode(call.code, BlockStart)]
    /\ UNCHANGED <<tvars, bvars, vvars, fvars, dvars>>

\* runcode is entered for the block below the limit and executes it
RunBlock ==
    /\ call.op # "source" /\ call.ran = 0
    /\ call' = [call EXCEPT !.op = "ran",
                            !.ran = runcode_end(call.code, BlockStart)]
    /\ UNCHANGED <<tvars, bvars, vvars, fvars, dvars>>

SkipNext == CompileBlock \/ SkipBlock \/ RunBlock

\* C30: the position at which the caller resumes after a skipped block is
\* the position at which the execution of the block returns
C30_Resume ==
    call.skipped.fault # "unset" /\ call.ran # 0 =>
        /\ call.skipped.fault = "none"
        /\ call.skipped.pc = call.ran

\* blocks whose integers and floats all fit their instruction are skipped
\* to where their execution returns
SkipInline ==
    (\A k \in 1..Len(call.items) :
        /\ call.items[k].kind \in {"int", "paren"} => call.items[k].n = 5
        /\ call.items[k].kind = "float" => call.items[k].f.whole)
        => C30_Resume

\* a block with an integer whose lowest byte reads as CODE_EXIT was skipped
\* and the caller resumes inside it
SkipShort ==
    /\ call.items = <<[kind |-> "int", n |-> 16777225,
                       f |-> CHOOSE f \in FloatLits : f.whole, s |-> <<>>]>>
    /\ call.ran = 7 /\ call.skipped = [pc |-> 5, fault |-> "none"]

(***************************************************************************)
(* The two ways a command call reaches its callback.  A statement whose    *)
(* callee is a command when it is compiled is specialised from the format  *)
(* (compilestatements, CODE_COM); one whose callee is not yet in the table *)
(* is compiled as CODE_CALLU and goes through callcommand when it runs.    *)
(***************************************************************************)
\* CODE_CALLU for a callee that is a command by then: callcommand on the
\* callargs values above the name slot, which holds the freed name
callu_command(fmt, actuals, garbage) == callcommand(fmt, actuals, FALSE, garbage)

\* a command with some format is about to be called with some actuals, once
\* from a statement compiled after and once from one compiled before its
\* registration
DispatchInit ==
    \E f \in CallFormats, a \in ActualLists :
        call = [op |-> "pending", fmt |-> f, actuals |-> a,
                static |-> <<>>, late |-> <<>>, ran |-> {}]

\* the statement compiled with the command in the table runs
DispatchStatic ==
    /\ "static" \notin call.ran
    /\ \E g \in GarbageVals :
           call' = [call EXCEPT !.op = "static", !.ran = call.ran \cup {"static"},
                                !.static = compiledcall(call.fmt, call.actuals, g)]
    /\ UNCHANGED <<tvars, bvars, vvars, fvars, dvars>>

\* the statement compiled before the command was registered runs
DispatchLate ==
    /\ "late" \notin call.ran
    /\ \E g \in GarbageVals :
           call' = [call EXCEPT !.op = "late", !.ran = call.ran \cup {"late"},
                                !.late = callu_command(call.fmt, call.actuals, g)]
    /\ UNCHANGED <<tvars, bvars, vvars, fvars, dvars>>

DispatchNext == DispatchStatic \/ DispatchLate

\* both statements have run
BothDispatched == call.ran = {"static", "late"}

\* C31: the same command called with the same actuals receives the same
\* argument vector (length, coerced values, N) whether the call was
\* specialised from the format when it was compiled or dispatched by name
\* when it ran.
C31_SameVector == BothDispatched => call.static = call.late

\* the format has parameter characters only, does not start with F, and the
\* call has no more actuals than the format has characters
PlainCall ==
    /\ \A p \in 1..Len(call.fmt) : call.fmt[p] \in ParamChars
    /\ call.fmt # <<>> => call.fmt[1] # "F"
    /\ Len(call.actuals) <= Len(call.fmt)

\* for plain calls the two dispatches agree
PlainDispatchAgrees == (BothDispatched /\ PlainCall) => call.static = call.late

\* a command of format "Ni" called with the one actual 7 gets (0, 7) from
\* the compiled statement and (0, 0) from the late-bound one
DispatchDiffers ==
    /\ BothDispatched
    /\ call.fmt = <<"N", "i">> /\ call.actuals = <<TvInt(7)>>
    /\ call.static = <<TvInt(0), TvInt(7)>>
    /\ call.late = <<TvInt(0), TvInt(0)>>

(***************************************************************************)
(* The two forms of an if statement.  With literal blocks the compiler     *)
(* rewrites the blocks into jumps; when a block is not a literal (it comes *)
(* from a lookup or a substitution) the statement is a call of the command *)
(* if with the blocks as code values.  The statement runs in an activation *)
(* that may already hold a result.                                         *)
(***************************************************************************)
\* compilestatements for "if c [A]" and "if c [A] [B]" with literal blocks;
\* B of kind "none" is the statement without an else block
compile_if_jump(c, A, B) ==
    IF B.kind # "none" THEN compile_if(c, A, B)
    ELSE LET cond   == <<Ins("VAL", 0, c)>>
             start1 == Len(cond) + 1
             blk1   == compileblock(BlockBody(A, 1))
             start2 == start1 + Len(blk1)
             code   == cond \o blk1
             len1   == start2 - (start1 + 1)
         IN  IF code[start1].op = "BLOCK" /\ code[start1].n = len1
             THEN [code EXCEPT
                     ![start1] = Ins("JUMP_FALSE", len1, TvNull),
                     ![start1 + 1] = Op("ENTER_RESULT")]
             ELSE code \o compileblock(<<>>) \o <<Com("COM", 3, "if")>>

\* the same call as a call of the command: the condition, the two blocks as
\* code values, and CODE_COM; at is where the statement starts and the
\* bodies of the blocks follow the program
compile_if_command(c, A, B, at) ==
    LET bodyA == BlockBody(A, 1)
        bodyB == IF B.kind = "none" THEN <<>> ELSE BlockBody(B, 2)
        endp  == at + 4 + 1
        posA  == IF bodyA = <<>> THEN 0 ELSE endp + 1
        posB  == IF bodyB = <<>> THEN 0
                 ELSE endp + 1 + (IF bodyA = <<>> THEN 0 ELSE Len(bodyA) + 1)
    IN  [stmt |-> <<Ins("VAL", 0, c), Ins("VAL", 0, TvCode(posA)),
                    Ins("VAL", 0, TvCode(posB)), Com("COM", 3, "if")>>,
         blocks |-> (IF bodyA = <<>> THEN <<>> ELSE bodyA \o <<Op("EXIT")>>)
                 \o (IF bodyB = <<>> THEN <<>> ELSE bodyB \o <<Op("EXIT")>>)]

\* the statement that leaves r as the result of the activation, if any
Held(r) == IF r = TvNull THEN <<>> ELSE ResultStmt(0, r)

\* the conditions, blocks and held results of the statements run
FormConds == {TvInt(0), TvInt(1), TvStr(<<"0", ".", "0">>), TvStr(<<"a">>)}
ThenBlocks == {Blk("empty", TvNull), Blk("block", TvInt(0)),
               Blk("block", TvInt(7))}
ElseBlocks == {Blk("none", TvNull), Blk("empty", TvNull),
               Blk("block", TvStr(<<"y">>))}
HeldResults == {TvNull, TvInt(5)}

\* an if statement is about to be run in both forms
FormsInit ==
    \E c \in FormConds, A \in ThenBlocks, B \in ElseBlocks, r \in HeldResults :
        call = [op |-> "statement", c |-> c, A |-> A, B |-> B, held |-> r,
                ran |-> {}, jump |-> TvNull, jtrace |-> <<>>, jumped |-> FALSE,
                com |-> TvNull, ctrace |-> <<>>]

\* the statement with literal blocks is compiled and run
RunJumpForm ==
    /\ "jump" \notin call.ran
    /\ \E prog \in {gen_main(Held(call.held)
                             \o compile_if_jump(call.c, call.A, call.B))} :
         \E r \in {runcode(prog, 1, <<>>)} :
             call' = [call EXCEPT
                        !.op = "jump", !.ran = call.ran \cup {"jump"},
                        !.jumped = prog[Len(prog) - 1].op # "COM",
                        !.jump = r.result, !.jtrace = r.trace]
    /\ UNCHANGED <<tvars, bvars, vvars, fvars, dvars>>

\* the same call is run as a call of the command if
RunCommandForm ==
    /\ "com" \notin call.ran
    /\ \E h \in {Held(call.held)} :
        \E f \in {compile_if_command(call.c, call.A, call.B, Len(h) + 1)} :
         \E r \in {runcode(gen_main(h \o f.stmt) \o f.blocks, 1, <<>>)} :
             call' = [call EXCEPT
                        !.op = "com", !.ran = call.ran \cup {"com"},
                        !.com = r.result, !.ctrace = r.trace]
    /\ UNCHANGED <<tvars, bvars, vvars, fvars, dvars>>

FormsNext == RunJumpForm \/ RunCommandForm

\* the statement has run in both forms, and its literal form was compiled
\* into jumps
BothForms == call.ran = {"jump", "com"} /\ call.jumped

\* C32: the jump-compiled form of if is equivalent to the call of the
\* command if: for every condition, then-block, optional else-block and
\* every result already held by the activation both execute the same blocks
\* and leave the same result.
C32_SameAsCommand ==
    BothForms => call.jtrace = call.ctrace /\ call.jump = call.com

\* both forms execute the same blocks
SameBlocks == BothForms => call.jtrace = call.ctrace

\* with an else block, or with no result held before, the results agree too
SameWithElse ==
    (BothForms /\ (call.B.kind # "none" \/ call.held = TvNull))
        => call.jump = call.com

\* "if 0 [result 7]" after "result 5": the jumps leave 5, the command null
FormsDiffer ==
    /\ BothForms
    /\ call.c = TvInt(0) /\ call.A = Blk("block", TvInt(7))
    /\ call.B.kind = "none" /\ call.held = TvInt(5)
    /\ call.jump = TvInt(5) /\ call.com = TvNull
    /\ call.jtrace = <<>> /\ call.ctrace = <<>>

(***************************************************************************)
(* Nested blocks in a compiled array.  compileblock writes, before the     *)
(* body of a block, a BLOCK word with the length and an OFFSET word with   *)
(* the index of the body's first word in the array; CODE_BLOCK hands out a *)
(* pointer to that word, and bcode_ref / bcode_unref find the word with    *)
(* the count from it.  Word indices count from 0; a script is a sequence   *)
(* of items, each the statement "null" or a block of items.                *)
(***************************************************************************)
CODE_EMPTY == 17

Item(k, body) == [k |-> k, body |-> body]
NullItem == Item("null", <<>>)

\* a mutant: the OFFSET word counts from the block's own BLOCK word
block_offset_local(start) == 2

\* the number compileblock stores in the OFFSET word of the block whose
\* BLOCK word is at index start
block_offset(start) == start + 2

RECURSIVE gen_items_at(_, _)
\* compilestatements from index start on: a statement "null" is one word, a
\* block is what compileblock lays out
gen_items_at(items, start) ==
    IF items = <<>> THEN <<>>
    ELSE LET Here(body) ==
                 IF items[1].k = "null" THEN <<Word(0, CODE_NULL)>>
                 ELSE IF body = <<>> THEN <<Word(0, CODE_EMPTY)>>
                 ELSE <<Word(Len(body) + 2, CODE_BLOCK),
                        Word(block_offset(start), CODE_OFFSET)>>
                          \o body \o <<Word(0, CODE_EXIT)>>
             Then(w) == w \o gen_items_at(Tail(items), start + Len(w))
         IN  Apply(Then, Apply(Here,
                 IF items[1].k = "null" THEN <<>>
                 ELSE gen_items_at(items[1].body, start + 2)))

\* compile: gen_main lays out START, the statements and EXIT, and the
\* caller gets the first reference (code[0] += 0x100)
compile_words(items) ==
    <<Plus100(Word(0, CODE_START))>> \o gen_items_at(items, 1)
        \o <<Word(0, CODE_EXIT)>>

\* the word at index i
WordIdx(words, i) == words[i + 1]

\* runcode CODE_BLOCK: the pointers to the bodies of the nested blocks,
\* args[numargs++].set_code(code + 1) with code past the BLOCK word
BlockPtrs(words) ==
    {i + 2 : i \in {j \in 0..(Len(words) - 1) :
                       OpOf(WordIdx(words, j)) = CODE_BLOCK}}

\* the index of the word bcode_ref and bcode_unref change for the pointer
\* p; -1 when they change nothing
ref_target(words, p) ==
    IF OpOf(WordIdx(words, p)) = CODE_START THEN p
    ELSE LET w == WordIdx(words, p - 1) IN
         CASE OpOf(w) = CODE_START  -> p - 1
           [] OpOf(w) = CODE_OFFSET -> p - w.hi
           [] OTHER -> -1

\* bcode_ref on the array m: the count of the target goes up
array_ref(m, p) ==
    LET t == ref_target(m.words, p) IN
    IF t < 0 THEN m
    ELSE [m EXCEPT !.words[t + 1] = Plus100(@)]

\* bcode_unref on the array m: the count of the target goes down and the
\* array is deleted from the target on when it falls below one reference;
\* a target that is not the first word of the allocation cannot be deleted
array_unref(m, p) ==
    LET t == ref_target(m.words, p)
        d == [m EXCEPT !.words[t + 1] = Minus100(@)]
    IN  IF t < 0 THEN m
        ELSE IF BelowOneRef(d.words[t + 1])
        THEN [d EXCEPT !.st = IF t = 0 THEN "freed" ELSE "ub",
                       !.frees = m.frees + 1]
        ELSE d

\* the scripts compiled: up to MaxTop items, blocks nested two deep
MaxTop == 2
MaxHeld == 3
InnerBlocks == {Item("block", b) : b \in {<<>>, <<NullItem>>,
                                           <<NullItem, NullItem>>}}
OuterBlocks == {Item("block", b) :
                  b \in {<<i>> : i \in InnerBlocks}
                        \cup {<<NullItem, i>> : i \in InnerBlocks}
                        \cup {<<i, NullItem>> : i \in InnerBlocks}}
TopItems == {NullItem} \cup InnerBlocks \cup OuterBlocks
Scripts == UNION {[1..k -> TopItems] : k \in 1..MaxTop}

\* a script is about to be compiled
OffsetInit ==
    \E s \in Scripts :
        call = [op |-> "script", items |-> s, words |-> <<>>, st |-> "none",
                frees |-> 0, held |-> <<>>, last |-> 0]

\* CsState::compile
CompileWords ==
    /\ call.op = "script"
    /\ call' = [call EXCEPT !.op = "compile", !.st = "live",
                            !.words = compile_words(call.items),
                            !.held = <<0>>]
    /\ UNCHANGED <<tvars, bvars, vvars, fvars, dvars>>

\* a value takes a reference through the pointer to START or through the
\* pointer CODE_BLOCK gave for a nested block
TakeRef ==
    /\ call.st = "live" /\ Len(call.held) < MaxHeld
    /\ \E p \in {0} \cup BlockPtrs(call.words) :
         \E m \in {array_ref(call, p)} :
             call' = [m EXCEPT !.op = "ref", !.held = Append(call.held, p),
                               !.last = p]
    /\ UNCHANGED <<tvars, bvars, vvars, fvars, dvars>>

\* a holder gives its reference up
DropRef ==
    /\ call.st = "live"
    /\ \E k \in 1..Len(call.held) :
         \E m \in {array_unref(call, call.held[k])} :
             call' = [m EXCEPT !.op = "unref", !.last = call.held[k],
                               !.held = SubSeq(call.held, 1, k - 1)
                                   \o SubSeq(call.held, k + 1, Len(call.held))]
    /\ UNCHANGED <<tvars, bvars, vvars, fvars, dvars>>

OffsetNext == CompileWords \/ TakeRef \/ DropRef

\* the count in the START word
ArrayCount == Int32Hi(WordIdx(call.words, 0))

\* C33: for every nested block the compiler emits, the OFFSET word holds the
\* distance from the block's first body word back to START, so a reference
\* taken or dropped through a pointer to the nested block changes the same
\* count as one through START, and the array is freed only when that one
\* count falls below one reference.
C33_OneCount ==
    call.st # "none" =>
        /\ \A p \in BlockPtrs(call.words) :
              /\ OpOf(WordIdx(call.words, p - 1)) = CODE_OFFSET
              /\ WordIdx(call.words, p - 1).hi = p
              /\ ref_target(call.words, p) = ref_target(call.words, 0)
        /\ \A i \in 1..(Len(call.words) - 1) :
              OpOf(WordIdx(call.words, i)) # CODE_START
        /\ ArrayCount = Len(call.held)
        /\ call.st = "freed" <=> ArrayCount < 1
        /\ call.st # "ub" /\ call.frees <= 1

\* the last reference, held through the body of a block nested two deep,
\* was dropped and freed the array
C33_Witness ==
    /\ call.op = "unref" /\ call.st = "freed" /\ call.frees = 1
    /\ call.last > 3 /\ call.held = <<>>
    /\ \E b \in OuterBlocks : call.items[1] = b

\* a reference through a nested block is held next to the owner's
NestedHeld ==
    /\ call.op = "ref" /\ call.last > 0 /\ ArrayCount = 2

(***************************************************************************)
(* The argument aliases at the head of the identifier table.  The state of *)
(* src/src/cs_state.cc is the table of the variables idents and identmap;  *)
(* the table of a CsState of src/cubescript.cc is kept in call.table as    *)
(* the sequence of its identifiers, the index being the position less one. *)
(***************************************************************************)
\* snprintf(buf, sizeof(buf), "arg%d", i + 1)
ArgText(i) == <<"a", "r", "g">> \o Decimal(i + 1)

\* idents.at(name) on a CsState's table: the position, 0 when absent
OldAt(table, name) ==
    IF \E k \in 1..Len(table) : table[k].name = name
    THEN CHOOSE k \in 1..Len(table) : table[k].name = name
    ELSE 0

\* CsState::new_ident(name, flags) on the table
cs_new_ident(table, name, flags) ==
    IF OldAt(table, name) # 0 \/ cs_check_num(name) THEN table
    ELSE Append(table, [name |-> name, type |-> "ID_ALIAS", flags |-> flags])

RECURSIVE CsArgs(_, _)
\* the loop of CsState::CsState creating arg1 .. argN
CsArgs(table, i) ==
    IF i >= MaxArguments THEN table
    ELSE LET Rest(t) == CsArgs(t, i + 1)
         IN  Apply(Rest, cs_new_ident(table, ArgText(i), {"ARG"}))

\* CsState::CsState: the argument aliases, the dummy, numargs and dbgalias
CsStateTable ==
    LET D(t) == cs_new_ident(t, <<"/", "/", "d", "u", "m", "m", "y">>,
                             {"UNKNOWN"})
        V(t) == t \o <<[name |-> <<"n", "u", "m", "a", "r", "g", "s">>,
                        type |-> "ID_VAR", flags |-> {}],
                       [name |-> <<"d", "b", "g", "a", "l", "i", "a", "s">>,
                        type |-> "ID_VAR", flags |-> {}]>>
    IN  Apply(V, Apply(D, CsArgs(<<>>, 0)))

\* CsState::set_alias(name, v) on the table: an alias keeps its place (the
\* first MaxArguments go through set_arg, which leaves the flags, the
\* others through Ident::set_alias), a new name becomes a new alias
cs_set_alias(table, name, identflags0) ==
    LET k == OldAt(table, name) IN
    IF k = 0
    THEN IF cs_check_num(name) THEN table
         ELSE Append(table, [name |-> name, type |-> "ID_ALIAS",
                             flags |-> identflags0])
    ELSE IF table[k].type = "ID_ALIAS" /\ k - 1 >= MaxArguments
    THEN [table EXCEPT ![k].flags = (@ \cap identflags0) \cup identflags0]
    ELSE table

\* the names defined after construction: the first and the last argument
\* alias and the name after the last
ArgDefNames == {"arg1", ArgName(MAX_ARGUMENTS - 1), "arg33"}
ArgDefTexts == {ArgText(0), ArgText(MaxArguments - 1), ArgText(MaxArguments)}

\* at most this many identifiers are added to a CsState's table
MaxOldDefs == 1

\* both states have just been constructed
ArgsInit == call = [op |-> "state", table |-> CsStateTable]

ArgsNewVar ==
    \E n \in ArgDefNames :
        Becomes("new_var", n, new_var(CurTable, n, IntV(1), FALSE, "DEFAULT"))

ArgsNewCommand ==
    \E n \in ArgDefNames :
        Becomes("new_command", n,
                new_command(CurTable, n, <<"i", "1", ".", ".", ".">>, "host"))

ArgsNewIdent ==
    \E n \in ArgDefNames :
        Becomes("new_ident", n, new_ident(CurTable, n, {"UNKNOWN"}))

ArgsAssignValue ==
    \E n \in ArgDefNames, keep \in BOOLEAN :
        Becomes("assign_value", n, assign_value(CurTable, n, IntV(2), keep))

\* CsState::new_ident from a script or the host
ArgsOldNewIdent ==
    /\ \E n \in ArgDefTexts :
         \E t \in {cs_new_ident(call.table, n, {"UNKNOWN"})} :
             /\ Len(t) <= Len(CsStateTable) + MaxOldDefs
             /\ call' = [call EXCEPT !.op = "new_ident", !.table = t]
    /\ UNCHANGED <<tvars, bvars, vvars, fvars, dvars>>

\* CsState::set_alias, outside and inside override mode
ArgsOldSetAlias ==
    /\ \E n \in ArgDefTexts, f \in {{}, {"OVERRIDDEN"}} :
         \E t \in {cs_set_alias(call.table, n, f)} :
             /\ Len(t) <= Len(CsStateTable) + MaxOldDefs
             /\ call' = [call EXCEPT !.op = "set_alias", !.table = t]
    /\ UNCHANGED <<tvars, bvars, vvars, fvars, dvars>>

ArgsNext ==
    \/ ArgsNewVar \/ ArgsNewCommand \/ ArgsNewIdent \/ ArgsAssignValue
    \/ ArgsOldNewIdent \/ ArgsOldSetAlias

SameBlock(r, v) ==
    /\ fault = "none"
    /\ refs[r].alive /\ refs[v].alive
    /\ refs[r].p_code.blk # 0
    /\ refs[r].p_code.blk = refs[v].p_code.blk
    /\ heap[refs[r].p_code.blk].st = "live"

\* the step leaves the block of r allocated, with the count it had
BlockKept(r) ==
    LET b == refs[r].p_code.blk IN
    /\ fault' = "none"
    /\ heap'[b].st = "live"
    /\ heap'[b].word = heap[b].word
    /\ heap'[b].frees = 0

\* C35: copy-assigning a bcode_ref from a bcode_ref that refers to the same
\* block, itself included, never frees the block and leaves its count
\* unchanged.
C35_SameBlockAssign ==
    [][\A r \in RefSlots, v \in RefSlots :
          (SameBlock(r, v) /\ CopyAssign(r, v)) => BlockKept(r)]_vars

\* between two different references to the same block it is so
OtherRefAssign ==
    [][\A r \in RefSlots, v \in RefSlots :
          (r # v /\ SameBlock(r, v) /\ CopyAssign(r, v)) => BlockKept(r)]_vars

\* a reference that was the only one was assigned to itself: the block is
\* freed and the reference still points to it
SelfAssignFreed ==
    \E r \in RefSlots :
        /\ refs[r].alive /\ refs[r].p_code.blk # 0
        /\ heap[refs[r].p_code.blk].st = "freed"
        /\ \A q \in RefSlots \ {r} : ~refs[q].alive
        /\ fault = "ub"

(***************************************************************************)
(* The code an alias caches, while the alias runs.  CALLALIAS compiles the *)
(* value when nothing is cached, takes a reference of its own on the array *)
(* for the time runcode runs it, and gives it up afterwards; clean_code    *)
(* gives up the reference of the cache.  Arrays are numbered in the order  *)
(* compile makes them; an array is its first word and whether it has been  *)
(* deleted.                                                                *)
(***************************************************************************)
\* id->code == nullptr
NoArray == 0

\* a mutant: the call runs the array without a reference of its own
callalias_ref_none(w) == w

\* CALLALIAS: codep[0] += 0x100
callalias_ref(w) == Plus100(w)

\* code[0] -= 0x100; if (int(code[0]) < 0x100) delete[] code, on array a;
\* a word of a deleted array cannot be read, and no array is deleted twice
unref_array(arrays, a) ==
    LET w == Minus100(arrays[a].word) IN
    IF arrays[a].st # "live"
    THEN [arrays EXCEPT ![a].st = "ub"]
    ELSE IF BelowOneRef(w)
    THEN [arrays EXCEPT ![a].word = w, ![a].st = "freed",
                        ![a].frees = @ + 1]
    ELSE [arrays EXCEPT ![a].word = w]

\* Ident::clean_code on the alias whose cache is code
clean_cached(arrays, code) ==
    IF code = NoArray THEN arrays ELSE unref_array(arrays, code)

\* CsState::compile: the array is new and code[0] += 0x100 gives the
\* first reference
compile_array(arrays) ==
    Append(arrays, [word |-> Plus100(Word(0, CODE_START)), st |-> "live",
                    frees |-> 0])

\* at most this many arrays are compiled and this many calls are nested
MaxArrays == 4
MaxCallDepth == 3

\* an alias with a value and nothing cached, and no call running
AliasRunInit ==
    call = [op |-> "alias", code |-> NoArray, arrays |-> <<>>,
            running |-> <<>>, ranfreed |-> FALSE]

\* CALLALIAS up to runcode: from the host, or from the running body
AliasEnter ==
    /\ Len(call.running) < MaxCallDepth
    /\ call.code # NoArray \/ Len(call.arrays) < MaxArrays
    /\ \E A \in {IF call.code = NoArray THEN compile_array(call.arrays)
                 ELSE call.arrays} :
         \E codep \in {IF call.code = NoArray THEN Len(A) ELSE call.code} :
             call' = [call EXCEPT
                        !.op = "enter", !.code = codep,
                        !.arrays = [A EXCEPT ![codep].word = callalias_ref(@)],
                        !.running = Append(call.running, codep)]
    /\ UNCHANGED <<tvars, bvars, vvars, fvars, dvars>>

\* the running body executes an instruction of its array
AliasBody ==
    /\ call.running # <<>>
    /\ call' = [call EXCEPT
                  !.op = "body",
                  !.ranfreed = @ \/ call.arrays[Top(call.running)].st # "live"]
    /\ UNCHANGED <<tvars, bvars, vvars, fvars, dvars>>

\* Ident::set_alias: the alias is assigned, by the host or by a body
AliasAssign ==
    /\ call.op # "assign" \/ call.code # NoArray
    /\ call' = [call EXCEPT !.op = "assign", !.code = NoArray,
                            !.arrays = clean_cached(call.arrays, call.code)]
    /\ UNCHANGED <<tvars, bvars, vvars, fvars, dvars>>

\* Ident::push_arg, pop_arg, undo_arg, redo_arg, set_arg: the value changes
\* and the cache is dropped
AliasRebind ==
    /\ call.code # NoArray
    /\ call' = [call EXCEPT !.op = "rebind", !.code = NoArray,
                            !.arrays = clean_cached(call.arrays, call.code)]
    /\ UNCHANGED <<tvars, bvars, vvars, fvars, dvars>>

\* CALLALIAS after runcode: codep[0] -= 0x100 and the delete
AliasLeave ==
    /\ call.running # <<>>
    /\ call' = [call EXCEPT
                  !.op = "leave",
                  !.arrays = unref_array(call.arrays, Top(call.running)),
                  !.running = Drop(call.running, 1)]
    /\ UNCHANGED <<tvars, bvars, vvars, fvars, dvars>>

AliasRunNext ==
    AliasEnter \/ AliasBody \/ AliasAssign \/ AliasRebind \/ AliasLeave

\* the number of calls running array a
RunningCount(a) ==
    Cardinality({k \in 1..Len(call.running) : call.running[k] = a})

\* C36: if an alias is reassigned, or its cached code is dropped otherwise,
\* while its own body executes, the executing array stays allocated until
\* that call returns and is then freed exactly once: it is never freed
\* while it runs and never freed twice.
C36_RunningCodeKept ==
    /\ ~call.ranfreed
    /\ \A a \in 1..Len(call.arrays) :
          LET held == RunningCount(a) + (IF call.code = a THEN 1 ELSE 0) IN
          /\ call.arrays[a].st # "ub"
          /\ call.arrays[a].frees <= 1
          /\ held > 0 => /\ call.arrays[a].st = "live"
                         /\ Int32Hi(call.arrays[a].word) = held
          /\ held = 0 => /\ call.arrays[a].st = "freed"
                         /\ call.arrays[a].frees = 1

\* the cache of the alias was dropped while its body ran, and the call has
\* returned and freed the array
C36_Witness ==
    /\ call.op = "leave" /\ call.running = <<>> /\ call.code = NoArray
    /\ Len(call.arrays) = 1
    /\ call.arrays[1].st = "freed" /\ call.arrays[1].frees = 1

\* the body runs an array the alias no longer caches
RunsDropped ==
    /\ call.op = "body" /\ call.running # <<>>
    /\ call.code # Top(call.running)
    /\ call.arrays[Top(call.running)].st = "live"

\* ---------------------------------------------------------------------------
\* The iterator alias of the loop and list commands

\* cs_set_iter(id, val, stack) with a string: the cell of the command is on
\* top of the alias's stack from the second iteration on
cs_set_iter_str(A, s) ==
    IF A.stack # <<>> /\ Top(A.stack).cell = "loop"
    THEN clean_code([A EXCEPT !.val = TvStr(s)])
    ELSE alias_push_arg(A, TvStr(s), "loop", TRUE)

\* the iterations i .. n - 1 of cs_do_loop and cs_loop_conc; the body leaves
\* the iterator alone
RECURSIVE loop_turns(_, _, _)
loop_turns(A, i, n) ==
    IF i >= n THEN A ELSE loop_turns(cs_set_iter(A, i), i + 1, n)

\* cs_do_loop on an alias
cs_do_loop(A, n) ==
    IF n <= 0 THEN A ELSE alias_pop_arg(loop_turns(A, 0, n))

\* cs_loop_conc on an alias
cs_loop_conc(A, n) ==
    IF n <= 0 THEN A
    ELSE LET B == loop_turns(A, 0, n)
         IN  IF n > 0 THEN alias_pop_arg(B) ELSE B

\* p.parse() ? p.element() : "" at the position at of the list
ListElement(list, at) == IF at <= Len(list) THEN list[at] ELSE <<>>

\* the iterations of a list command with k iterators from the position at
\* on: every turn takes k elements; the result is the aliases and n
RECURSIVE list_turns(_, _, _, _, _)
list_turns(ids, k, list, at, n) ==
    IF at > Len(list) THEN [ids |-> ids, n |-> n]
    ELSE list_turns([j \in 1..Len(ids) |->
                        IF j <= k
                        THEN cs_set_iter_str(ids[j],
                                             ListElement(list, at + j - 1))
                        ELSE ids[j]],
                    k, list, at + k, n + k)

\* the end of a list command: if (n >= 0) every iterator is popped
list_pop(ids, k, n) ==
    [j \in 1..Len(ids) |->
        IF j <= k /\ n >= 0 THEN alias_pop_arg(ids[j]) ELSE ids[j]]

\* looplist, looplist2, looplist3 on aliases: k is the number of iterators
looplist(ids, k, list) ==
    LET r == list_turns(ids, k, list, 1, 0) IN list_pop(r.ids, k, r.n)

\* cs_loop_list_conc, listfilter and listcount on an alias
cs_loop_list_conc(A, list) ==
    LET r == list_turns(<<A>>, 1, list, 1, 0) IN list_pop(r.ids, 1, r.n)[1]

\* the iteration counts, the lists, the number of iterators
IterCounts == -1 .. MaxLoopTurns
MaxListLen == 3
IterLists == {[j \in 1..k |-> IF j % 2 = 1 THEN <<"a">> ELSE <<"b">>] :
                 k \in 0..MaxListLen}
MaxIters == 3

\* the bindings the alias has before the command: pushed by a call, by
\* local or by a command that is still running
OuterStacks ==
    UNION {[1..d -> [val : AliasVals, cell : {"arg"}]] : d \in 0..MaxSaved}

\* MaxIters aliases, each with the same value and bindings; no command has run
IterInit ==
    \E v \in AliasVals, st \in OuterStacks :
        LET A == AliasOf(v, NoCode, st, {}) IN
        call = [op |-> "idle", cmd |-> "none", n |-> 0, list |-> <<>>,
                ids |-> [j \in 1..MaxIters |-> A],
                before |-> [j \in 1..MaxIters |-> A]]

IterBecomes(cmd, n, list, ids) ==
    /\ call.op = "idle"
    /\ call' = [call EXCEPT !.op = "done", !.cmd = cmd, !.n = n,
                            !.list = list, !.ids = ids]
    /\ UNCHANGED <<tvars, bvars, vvars, fvars, dvars>>

\* loop and the commands of its family
IterLoop ==
    \E n \in IterCounts :
        IterBecomes("loop", n, <<>>,
                    [call.ids EXCEPT ![1] = cs_do_loop(@, n)])

\* loopconcat and the commands of its family
IterLoopConcat ==
    \E n \in IterCounts :
        IterBecomes("loopconcat", n, <<>>,
                    [call.ids EXCEPT ![1] = cs_loop_conc(@, n)])

\* looplist
IterLoopList ==
    \E list \in IterLists :
        IterBecomes("looplist", 1, list, looplist(call.ids, 1, list))

\* looplist2
IterLoopList2 ==
    \E list \in IterLists :
        IterBecomes("looplist2", 2, list, looplist(call.ids, 2, list))

\* looplist3
IterLoopList3 ==
    \E list \in IterLists :
        IterBecomes("looplist3", 3, list, looplist(call.ids, 3, list))

\* looplistconcat and looplistconcatword
IterLoopListConcat ==
    \E list \in IterLists :
        IterBecomes("looplistconcat", 1, list,
                    [call.ids EXCEPT ![1] = cs_loop_list_conc(@, list)])

\* listfilter
IterListFilter ==
    \E list \in IterLists :
        IterBecomes("listfilter", 1, list,
                    [call.ids EXCEPT ![1] = cs_loop_list_conc(@, list)])

\* listcount
IterListCount ==
    \E list \in IterLists :
        IterBecomes("listcount", 1, list,
                    [call.ids EXCEPT ![1] = cs_loop_list_conc(@, list)])

IterNext ==
    \/ IterLoop
    \/ IterLoopConcat
    \/ IterLoopList
    \/ IterLoopList2
    \/ IterLoopList3
    \/ IterLoopListConcat
    \/ IterListFilter
    \/ IterListCount

\* the value and the bindings of every alias are those before the command
IterRestored ==
    \A j \in 1..MaxIters :
        /\ call.ids[j].val = call.before[j].val
        /\ call.ids[j].stack = call.before[j].stack

ListCommands ==
    {"looplist", "looplist2", "looplist3", "looplistconcat", "listfilter",
     "listcount"}

\* C37: every loop and list iterator command leaves the value and the depth
\* of the binding stack of its iterator aliases as they were before it, for
\* every iteration count and every list, the empty list included
C37_IteratorRestored == call.op = "done" => IterRestored

\* the commands of the loop and loopconcat families restore the iterator for
\* every count
LoopRestored ==
    (call.op = "done" /\ call.cmd \in {"loop", "loopconcat"}) => IterRestored

\* a list command restores its iterators when the list has an element or the
\* iterators have no binding
ListRestored ==
    (/\ call.op = "done"
     /\ call.cmd \in ListCommands
     /\ call.list # <<>> \/ call.before[1].stack = <<>>) => IterRestored

\* looplist over the empty list has popped a binding it did not push
IteratorPopped ==
    /\ call.op = "done"
    /\ call.cmd = "looplist"
    /\ call.list = <<>>
    /\ Len(call.ids[1].stack) = Len(call.before[1].stack) - 1
    /\ call.ids[1].val = Top(call.before[1].stack).val
    /\ call.ids[1].val # call.before[1].val

\* ---------------------------------------------------------------------------
\* Aliases assigned in override mode

\* the aliases: an argument alias and two others, with their indices in the
\* table (arg1 is the first entry; the others come after the MaxArguments
\* argument aliases and the three names the constructor adds)
OvNames == {"arg1", "a", "b"}
OvIndex(name) ==
    IF name = "arg1" THEN 0
    ELSE IF name = "a" THEN MaxArguments + 3 ELSE MaxArguments + 4

\* the values assigned to the aliases
OvVals == {TvStr(<<>>), TvInt(0)}

\* CsState::set_alias(name, v) on an alias: an argument alias goes through
\* set_arg, which leaves the flags; used tells whether the running alias has
\* the argument
set_alias_ident(A, index, v, identflags0, used) ==
    IF index < MaxArguments THEN alias_set_arg(A, v, used)
    ELSE alias_set_alias(A, v, identflags0)

\* CsState::clear_overrides: clear_override on every identifier
clear_overrides(ids) == [n \in DOMAIN ids |-> alias_clear_override(ids[n])]

\* the names of the aliases marked OVERRIDDEN
OvMarked(ids) == {n \in DOMAIN ids : "OVERRIDDEN" \in ids[n].flags}

\* the aliases hold a value and no cached code, the variable is 0 and is not
\* overridden, the thread is not in override mode
OvInit ==
    \E g \in Garbage :
        call = [op |-> "new", name |-> "none",
                ids |-> [n \in OvNames |->
                            AliasOf(TvStr(<<"x">>), NoCode, <<>>, {})],
                var |-> Ident(0, 2, 0, {}, g),
                identflags |-> {}, marked |-> {}]

OvBecomes(op, name, ids, var, idf) ==
    /\ call' = [op |-> op, name |-> name, ids |-> ids, var |-> var,
                identflags |-> idf,
                marked |-> IF op = "clear_overrides" THEN OvMarked(call.ids)
                           ELSE {}]
    /\ UNCHANGED <<tvars, bvars, vvars, fvars, dvars>>

\* identflags |= IDF_OVERRIDDEN
OvEnter ==
    /\ "OVERRIDDEN" \notin call.identflags
    /\ OvBecomes("mode", "none", call.ids, call.var,
                 call.identflags \cup {"OVERRIDDEN"})

\* identflags = oldflags
OvLeave ==
    /\ "OVERRIDDEN" \in call.identflags
    /\ OvBecomes("mode", "none", call.ids, call.var,
                 call.identflags \ {"OVERRIDDEN"})

\* an alias is assigned; an argument alias is one the running alias has
OvSetAlias ==
    \E n \in OvNames, v \in OvVals :
        /\ OvBecomes("set_alias", n,
                     [call.ids EXCEPT ![n] =
                         set_alias_ident(@, OvIndex(n), v, call.identflags,
                                         TRUE)],
                     call.var, call.identflags)

\* an alias is called: its code is compiled and cached
OvCallAlias ==
    \E n \in OvNames :
        /\ call.ids[n].code = NoCode
        /\ OvBecomes("call", n, [call.ids EXCEPT ![n] = callalias_code(@)],
                     call.var, call.identflags)

\* clear_override on one alias
OvClearOverride ==
    \E n \in OvNames :
        OvBecomes("clear_override", n,
                  [call.ids EXCEPT ![n] = alias_clear_override(@)],
                  call.var, call.identflags)

\* clear_overrides
OvClearOverrides ==
    OvBecomes("clear_overrides", "none", clear_overrides(call.ids),
              clear_override(VarState(call.var, call.identflags, 0)).id,
              call.identflags)

OvNext ==
    \/ OvEnter
    \/ OvLeave
    \/ OvSetAlias
    \/ OvCallAlias
    \/ OvClearOverride
    \/ OvClearOverrides

\* the step assigns an alias while the thread is in override mode
OvAssignStep ==
    call'.op = "set_alias" /\ "OVERRIDDEN" \in call.identflags

\* the aliases the clearing step is applied to
OvCleared ==
    IF call'.op = "clear_overrides" THEN OvNames
    ELSE IF call'.op = "clear_override" THEN {call'.name}
    ELSE {}

\* the step leaves the identifiers it is not applied to, and those that are
\* not marked, as they are
OvOthersKept ==
    /\ \A n \in OvNames :
          (n \notin OvCleared \/ "OVERRIDDEN" \notin call.ids[n].flags)
              => call'.ids[n] = call.ids[n]
    /\ "OVERRIDDEN" \notin call.var.flags => call'.var = call.var

EmptyKeepsCode ==
    /\ call.op = "clear_override"
    /\ call.ids[call.name].val = TvStr(<<>>)
    /\ call.ids[call.name].code # NoCode
    /\ "OVERRIDDEN" \notin call.ids[call.name].flags

\* the parts that a behaviour does not exercise stay as constructed
Idle == RunInit /\ call = [op |-> "none"]

(***************************************************************************)
(* The behaviours checked.                                                 *)
(***************************************************************************)
InitTable == TableInit /\ BcodeInit /\ VarIdle /\ FrameInit /\ Idle

InitBcode == TableInit /\ BcodeInit /\ VarIdle /\ FrameInit /\ Idle

InitVar == TableInit /\ BcodeInit /\ VarInit /\ FrameInit /\ Idle

InitVarChecked == TableInit /\ BcodeInit /\ VarInit /\ FrameInit /\ Idle

SpecTable == InitTable /\ [][TableNext]_vars

SpecBcode == InitBcode /\ [][BcodeNext]_vars

SpecVar == InitVar /\ [][VarNext]_vars

SpecVarChecked == InitVarChecked /\ [][VarCheckedNext]_vars

InitFrames == TableInit /\ BcodeInit /\ VarIdle /\ FrameInit /\ Idle

SpecFrames == InitFrames /\ [][FrameNext]_vars

InitRun == TableInit /\ BcodeInit /\ VarIdle /\ FrameInit /\ RunInit /\ call = [op |-> "none"]

SpecRun == InitRun /\ [][RunNext]_vars

InitCommand == TableInit /\ BcodeInit /\ VarIdle /\ FrameInit /\ RunInit /\ CommandInit

SpecCommand == InitCommand /\ [][CommandNext]_vars

InitRegister == TableInit /\ BcodeInit /\ VarIdle /\ FrameInit /\ RunInit /\ RegisterInit

SpecRegister == InitRegister /\ [][RegisterNext]_vars

InitMath == TableInit /\ BcodeInit /\ VarIdle /\ FrameInit /\ RunInit /\ MathInit

SpecMath == InitMath /\ [][MathNext]_vars

InitBool == TableInit /\ BcodeInit /\ VarIdle /\ FrameInit /\ RunInit /\ BoolInit

SpecBool == InitBool /\ [][BoolNext]_vars

InitIf == TableInit /\ BcodeInit /\ VarIdle /\ FrameInit /\ RunInit /\ IfInit

SpecIf == InitIf /\ [][IfNext]_vars

InitAndOr == TableInit /\ BcodeInit /\ VarIdle /\ FrameInit /\ RunInit /\ AndOrInit

SpecAndOr == InitAndOr /\ [][AndOrNext]_vars

InitEscape == TableInit /\ BcodeInit /\ VarIdle /\ FrameInit /\ RunInit /\ EscapeInit

SpecEscape == InitEscape /\ [][EscapeNext]_vars

InitName == TableInit /\ BcodeInit /\ VarIdle /\ FrameInit /\ RunInit /\ NameInit

SpecName == InitName /\ [][NameNext]_vars

InitLate == TableInit /\ BcodeInit /\ VarIdle /\ FrameInit /\ RunInit /\ LateInit

SpecLate == InitLate /\ [][LateNext]_vars

InitLoop == TableInit /\ BcodeInit /\ VarIdle /\ FrameInit /\ RunInit /\ LoopInit

SpecLoop == InitLoop /\ [][LoopNext]_vars

InitThread == TableInit /\ BcodeInit /\ VarIdle /\ FrameInit /\ RunInit /\ ThreadInit

SpecThread == InitThread /\ [][ThreadNext]_vars

InitLookup == TableInit /\ BcodeInit /\ VarIdle /\ FrameInit /\ RunInit /\ LookupInit

SpecLookup == InitLookup /\ [][LookupNext]_vars

InitInt == TableInit /\ BcodeInit /\ VarIdle /\ FrameInit /\ RunInit /\ IntInit

SpecInt == InitInt /\ [][IntNext]_vars

InitAliasCode == TableInit /\ BcodeInit /\ VarIdle /\ FrameInit /\ RunInit /\ AliasCodeInit

SpecAliasCode == InitAliasCode /\ [][AliasCodeNext]_vars

InitNest == TableInit /\ BcodeInit /\ VarIdle /\ FrameInit /\ RunInit /\ NestInit

SpecNest == InitNest /\ [][NestNext]_vars

InitStmt == TableInit /\ BcodeInit /\ VarIdle /\ FrameInit /\ RunInit /\ StmtInit

SpecStmt == InitStmt /\ [][StmtNext]_vars

InitSkip == TableInit /\ BcodeInit /\ VarIdle /\ FrameInit /\ RunInit /\ SkipInit

SpecSkip == InitSkip /\ [][SkipNext]_vars

InitDispatch == TableInit /\ BcodeInit /\ VarIdle /\ FrameInit /\ RunInit /\ DispatchInit

SpecDispatch == InitDispatch /\ [][DispatchNext]_vars

InitIfForms == TableInit /\ BcodeInit /\ VarIdle /\ FrameInit /\ RunInit /\ FormsInit

SpecIfForms == InitIfForms /\ [][FormsNext]_vars

InitOffset == TableInit /\ BcodeInit /\ VarIdle /\ FrameInit /\ RunInit /\ OffsetInit

SpecOffset == InitOffset /\ [][OffsetNext]_vars

InitArgs == TableInit /\ BcodeInit /\ VarIdle /\ FrameInit /\ RunInit /\ ArgsInit

SpecArgs == InitArgs /\ [][ArgsNext]_vars

InitAliasRun == TableInit /\ BcodeInit /\ VarIdle /\ FrameInit /\ RunInit /\ AliasRunInit

SpecAliasRun == InitAliasRun /\ [][AliasRunNext]_vars

InitIter == TableInit /\ BcodeInit /\ VarIdle /\ FrameInit /\ RunInit /\ IterInit

SpecIter == InitIter /\ [][IterNext]_vars

InitOverride == TableInit /\ BcodeInit /\ VarIdle /\ FrameInit /\ RunInit /\ OvInit

SpecOverride == InitOverride /\ [][OvNext]_vars

=============================================================================
